---- MODULE Spec2Model ----
(***************************************************************************)
(* Model of the T-REX deployment scripts:                                  *)
(*   deployFullSuite                 src/scripts/deployIdentity.ts:183     *)
(*   deployTREXSuiteInfrastructure   src/scripts/deployTREXSuiteInfra...:133*)
(*   deployTREXSuiteInfrastructure   (second copy) ...:456                 *)
(*   main of deployPropertyToken     src/scripts/deployIdentity.ts:558     *)
(*                                                                         *)
(* The scripts use ethers v5 through hardhat-ethers.  There                *)
(*   - `await ethers.deployContract(..)` and `await factory.deploy(..)`    *)
(*     resolve when the deployment transaction has been SENT; only         *)
(*     `await c.deployed()` waits for it to be mined;                      *)
(*   - `await contract.method(..)` of a state-changing method resolves to  *)
(*     the TransactionResponse when the transaction has been SENT; only    *)
(*     `await tx.wait()` waits for the receipt.                            *)
(* The ledger is an external collaborator: a sent transaction is mined at  *)
(* any later moment, transactions of one account in nonce (= submission)   *)
(* order, transactions of different accounts in any order.                 *)
(***************************************************************************)
EXTENDS Integers, Sequences, FiniteSets, TLC

VARIABLES
    entry,       \* which script runs: "full", "infra1", "infra2", "property"
    pool,        \* number of signers ethers.getSigners() returns
    env,         \* process.env: role -> value of TREX_<ROLE>_PRIVATE_KEY
    signers,     \* local signer variables of the run: role -> account address
    pc,          \* index of the next statement of the script's program
    status,      \* "running", "awaiting" (inside c.deployed()/tx.wait()), "done", "failed"
    error,       \* the exception that ended the run, "" if none
    txs,         \* transactions sent so far, in submission order
    confirmed,   \* indices into txs of the transactions the ledger has mined
    reverted,    \* those of them whose execution reverted
    console,     \* lines written by console.log / console.warn / console.error
    exitCode,    \* process.exitCode
    printed,     \* TRUE once the address table has been returned and printed
    step,        \* deployPropertyToken: the statement main() is at
    getTokenResult,      \* deployPropertyToken: how trexFactory.getToken(salt) ended
    existingDeployment,  \* deployPropertyToken: the local variable of that name
    receipt,             \* deployPropertyToken: receipt.logs of the deployment
    suiteAddresses,      \* deployPropertyToken: the local variable of that name
    inputs,      \* the inputs of the run besides the role keys: process.env
                 \* values, or the arguments of the function under study
    queries,     \* read-only ledger queries issued so far (getCode, getToken)
    result       \* what the function under study returned: NoResult before

vars == <<entry, pool, env, signers, pc, status, error, txs, confirmed, reverted,
          console, exitCode, printed,
          step, getTokenResult, existingDeployment, receipt, suiteAddresses,
          inputs, queries, result>>

\* the variables of the suite deployments and those of deployPropertyToken
propertyVars == <<step, getTokenResult, existingDeployment, receipt, suiteAddresses>>

\* the inputs, the queries and the result of a function under study
studyVars == <<inputs, queries, result>>

\* the result before the function under study has returned
NoResult == [returned |-> FALSE]

\* the function returned value v
Returned(v) == [returned |-> TRUE, value |-> v]

----------------------------------------------------------------------------
(* Bounds of the model *)

\* largest signer pool considered (deployFullSuite destructures ten signers)
MaxPool == 10

----------------------------------------------------------------------------
(* Values *)

\* `undefined`: a missing array element or an unset variable
Undefined == 0 - 1

\* ethers.constants.AddressZero
AddressZero == 0

\* process.env values of a TREX_<ROLE>_PRIVATE_KEY variable: unset, the empty
\* string, a well-formed private key, or a string that is no private key
EnvUnset == 0 - 1
EnvEmpty == 0
ValidKey == 201
MalformedKey == 999

EnvValues == {EnvUnset, EnvEmpty, ValidKey, MalformedKey}

\* a string of process.env (for the salt, the sequence of its characters),
\* and the value of a variable that is not set
Text(s) == [t |-> "string", text |-> s]

NoText == [t |-> "undefined", text |-> ""]

\* the decimal numerals considered: "-10" .. "40"
MaxNumeral == 40

Numerals == (0 - 10)..MaxNumeral

\* Number(source) for the decimal inputs considered: whether it is NaN,
\* whether it is an integer, and its integer part.  The empty string and a
\* string of blanks convert to 0; blanks around a numeral are ignored;
\* exponent, hexadecimal and fraction spellings are numbers too.
NumberOf(source) ==
    CASE source = "0" -> [nan |-> FALSE, integer |-> TRUE, n |-> 0]
      [] source = "" -> [nan |-> FALSE, integer |-> TRUE, n |-> 0]
      [] source = " " -> [nan |-> FALSE, integer |-> TRUE, n |-> 0]
      [] source = " 7 " -> [nan |-> FALSE, integer |-> TRUE, n |-> 7]
      [] source = "1e1" -> [nan |-> FALSE, integer |-> TRUE, n |-> 10]
      [] source = "0x12" -> [nan |-> FALSE, integer |-> TRUE, n |-> 18]
      [] source = "18.0" -> [nan |-> FALSE, integer |-> TRUE, n |-> 18]
      [] \E n \in Numerals : source = ToString(n) ->
             [nan |-> FALSE, integer |-> TRUE,
              n |-> CHOOSE n \in Numerals : source = ToString(n)]
      [] source = "18" -> [nan |-> FALSE, integer |-> TRUE, n |-> 18]
      [] source = "19" -> [nan |-> FALSE, integer |-> TRUE, n |-> 19]
      [] source = "-1" -> [nan |-> FALSE, integer |-> TRUE, n |-> 0 - 1]
      [] source = "1.5" -> [nan |-> FALSE, integer |-> FALSE, n |-> 1]
      [] OTHER -> [nan |-> TRUE, integer |-> FALSE, n |-> 0]

\* BigNumber.from(text): [ok |-> FALSE] when it throws (no integer literal)
BigNumberFrom(text) ==
    LET parsed == NumberOf(text)
    IN IF parsed.nan \/ ~parsed.integer
       THEN [ok |-> FALSE, value |-> 0]
       ELSE [ok |-> TRUE, value |-> parsed.n]

\* the values of TREX_TOKEN_DECIMALS considered
TokenDecimalsInputs == {NoText, Text("abc"), Text("19")}

\* The address of the account a private key controls (new Wallet(key).address).
\* Pool accounts have the addresses 1..pool; the keys of the environment
\* control accounts outside the pool.
AddrOfKey(k) == k - 100

\* address of availableSigners[i]
PoolAddr(i) == i + 1

\* availableSigners[i], `undefined` beyond the end of the array
PoolSigner(n, i) == IF i < n THEN PoolAddr(i) ELSE Undefined

Roles == <<"deployer", "tokenIssuer", "tokenAgent", "tokenAdmin", "claimIssuer",
           "aliceWallet", "bobWallet", "charlieWallet", "davidWallet", "anotherWallet">>

RoleSet == {Roles[i] : i \in 1..Len(Roles)}

\* position of a role in the array destructuring of ethers.getSigners()
PoolIndex(role) == (CHOOSE i \in 1..Len(Roles) : Roles[i] = role) - 1

\* The first infrastructure script reads availableSigners[0] .. [4] and
\* nothing beyond: larger pools behave as a pool of this size.
IndexedSigners == 5

\* the roles resolveRoleSigner is called for (type RoleKey)
RoleKeys == {"tokenIssuer", "tokenAgent", "tokenAdmin", "claimIssuer"}

----------------------------------------------------------------------------
(* The programs: the statements of each script that touch the signer pool,  *)
(* the ledger or the result, in source order.                               *)
(*   op    "deploy": ethers.deployContract / ContractFactory.deploy         *)
(*         "call":   a state-changing contract method                       *)
(*         "parse":  BigNumber.from(process.env.TREX_TOKEN_DECIMALS ?? '0') *)
(*   by    the local signer variable the transaction is sent with           *)
(*   wait  TRUE when the statement is followed by `await c.deployed()`      *)
(*   reads the signer variables whose `.address` the statement evaluates    *)

Stmt(op, name, by, wait, reads) ==
    [op |-> op, name |-> name, by |-> by, wait |-> wait, reads |-> reads]

Deploy(name, by, wait, reads) == Stmt("deploy", name, by, wait, reads)

Call(name, by, reads) == Stmt("call", name, by, FALSE, reads)

\* deployIdentity.ts:190-195, deployTREXSuiteInfrastructure.ts:162-167, 462-467
Implementations ==
    << Deploy("ClaimTopicsRegistry", "deployer", FALSE, {}),
       Deploy("TrustedIssuersRegistry", "deployer", FALSE, {}),
       Deploy("IdentityRegistryStorage", "deployer", FALSE, {}),
       Deploy("IdentityRegistry", "deployer", FALSE, {}),
       Deploy("ModularCompliance", "deployer", FALSE, {}),
       Deploy("Token", "deployer", FALSE, {}) >>

\* variant of IdentityAuthority: no deployment is awaited
IdentityAuthority_NotAwaited ==
    << Deploy("Identity", "deployer", FALSE, {}),
       Deploy("ImplementationAuthority", "deployer", FALSE, {}),
       Deploy("IdentityFactory", "deployer", FALSE, {}) >>

\* deployIdentityImplementationAuthority: every deployment is awaited
IdentityAuthority ==
    << Deploy("Identity", "deployer", TRUE, {}),
       Deploy("ImplementationAuthority", "deployer", TRUE, {}),
       Deploy("IdentityFactory", "deployer", TRUE, {}) >>

\* deployTREXImplementationAuthority, then the factory and its registration
TREXAuthority ==
    << Deploy("TREXImplementationAuthority", "deployer", FALSE, {}),
       Call("addAndUseTREXVersion", "deployer", {}),
       Deploy("TREXFactory", "deployer", FALSE, {}),
       Call("identityFactory.addTokenFactory", "deployer", {}) >>

\* variant of Proxies: deployIdentityProxy does not await identity.deployed()
Proxies_IdentityNotAwaited(w) ==
    << Deploy("ClaimTopicsRegistryProxy", "deployer", w, {}),
       Deploy("TrustedIssuersRegistryProxy", "deployer", w, {}),
       Deploy("IdentityRegistryStorageProxy", "deployer", w, {}),
       Deploy("DefaultCompliance", "deployer", w, {}),
       Deploy("IdentityRegistryProxy", "deployer", w, {}),
       Deploy("tokenOID", "deployer", FALSE, {"tokenIssuer"}),
       Stmt("parse", "tokenDecimals", "deployer", FALSE, {}),
       Deploy("TokenProxy", "deployer", w, {}),
       Deploy("AgentManager", "tokenAgent", FALSE, {}) >>

\* The proxies of the suite.  w: whether the script awaits c.deployed() on the
\* registry, compliance and token proxies (the first infrastructure script
\* does, deployFullSuite and the second infrastructure script do not).
\* deployIdentityProxy always awaits identity.deployed().
Proxies(w) ==
    << Deploy("ClaimTopicsRegistryProxy", "deployer", w, {}),
       Deploy("TrustedIssuersRegistryProxy", "deployer", w, {}),
       Deploy("IdentityRegistryStorageProxy", "deployer", w, {}),
       Deploy("DefaultCompliance", "deployer", w, {}),
       Deploy("IdentityRegistryProxy", "deployer", w, {}),
       Deploy("tokenOID", "deployer", TRUE, {"tokenIssuer"}),
       Stmt("parse", "tokenDecimals", "deployer", FALSE, {}),
       Deploy("TokenProxy", "deployer", w, {}),
       Deploy("AgentManager", "tokenAgent", FALSE, {}) >>

\* variant of InfraWiring: the issuer is registered before the topic
InfraWiring_IssuerBeforeTopic ==
    << Call("bindIdentityRegistry", "deployer", {}),
       Call("token.addAgent(tokenAgent)", "deployer", {"tokenAgent"}),
       Call("identityRegistry.addAgent(tokenAgent)", "deployer", {"tokenAgent"}),
       Call("identityRegistry.addAgent(token)", "deployer", {}),
       Deploy("ClaimIssuer", "claimIssuer", FALSE, {"claimIssuer"}),
       Call("claimIssuerContract.addKey", "claimIssuer", {}),
       Call("addTrustedIssuer", "deployer", {}),
       Call("addClaimTopic", "deployer", {}),
       Call("agentManager.addAgentAdmin", "tokenAgent", {"tokenAdmin"}),
       Call("token.addAgent(agentManager)", "deployer", {}),
       Call("identityRegistry.addAgent(agentManager)", "deployer", {}) >>

\* variant of InfraWiring: lines 292 and 569 are not commented out
InfraWiring_Unpause ==
    << Call("bindIdentityRegistry", "deployer", {}),
       Call("token.addAgent(tokenAgent)", "deployer", {"tokenAgent"}),
       Call("identityRegistry.addAgent(tokenAgent)", "deployer", {"tokenAgent"}),
       Call("identityRegistry.addAgent(token)", "deployer", {}),
       Call("addClaimTopic", "deployer", {}),
       Deploy("ClaimIssuer", "claimIssuer", FALSE, {"claimIssuer"}),
       Call("claimIssuerContract.addKey", "claimIssuer", {}),
       Call("addTrustedIssuer", "deployer", {}),
       Call("agentManager.addAgentAdmin", "tokenAgent", {"tokenAdmin"}),
       Call("token.addAgent(agentManager)", "deployer", {}),
       Call("identityRegistry.addAgent(agentManager)", "deployer", {}),
       Call("unpause", "tokenAgent", {}) >>

\* deployTREXSuiteInfrastructure.ts:265-289 and 542-566
InfraWiring ==
    << Call("bindIdentityRegistry", "deployer", {}),
       Call("token.addAgent(tokenAgent)", "deployer", {"tokenAgent"}),
       Call("identityRegistry.addAgent(tokenAgent)", "deployer", {"tokenAgent"}),
       Call("identityRegistry.addAgent(token)", "deployer", {}),
       Call("addClaimTopic", "deployer", {}),
       Deploy("ClaimIssuer", "claimIssuer", FALSE, {"claimIssuer"}),
       Call("claimIssuerContract.addKey", "claimIssuer", {}),
       Call("addTrustedIssuer", "deployer", {}),
       Call("agentManager.addAgentAdmin", "tokenAgent", {"tokenAdmin"}),
       Call("token.addAgent(agentManager)", "deployer", {}),
       Call("identityRegistry.addAgent(agentManager)", "deployer", {}) >>

\* deployIdentity.ts:270-384
FullWiring ==
    << Call("bindIdentityRegistry", "deployer", {}),
       Call("token.addAgent(tokenAgent)", "deployer", {"tokenAgent"}),
       Call("addClaimTopic", "deployer", {}),
       Deploy("ClaimIssuer", "claimIssuer", FALSE, {"claimIssuer"}),
       Call("claimIssuerContract.addKey", "claimIssuer", {}),
       Call("addTrustedIssuer", "deployer", {}),
       Deploy("aliceIdentity", "deployer", TRUE, {"aliceWallet"}),
       Call("aliceIdentity.addKey", "aliceWallet", {}),
       Deploy("bobIdentity", "deployer", TRUE, {"bobWallet"}),
       Deploy("charlieIdentity", "deployer", TRUE, {"charlieWallet"}),
       Call("identityRegistry.addAgent(tokenAgent)", "deployer", {"tokenAgent"}),
       Call("identityRegistry.addAgent(token)", "deployer", {}),
       Call("batchRegisterIdentity", "tokenAgent", {"aliceWallet", "bobWallet"}),
       Call("aliceIdentity.addClaim", "aliceWallet", {}),
       Call("bobIdentity.addClaim", "bobWallet", {}),
       Call("mint(alice)", "tokenAgent", {"aliceWallet"}),
       Call("mint(bob)", "tokenAgent", {"bobWallet"}),
       Call("agentManager.addAgentAdmin", "tokenAgent", {"tokenAdmin"}),
       Call("token.addAgent(agentManager)", "deployer", {}),
       Call("identityRegistry.addAgent(agentManager)", "deployer", {}),
       Call("unpause", "tokenAgent", {}) >>

\* versionStruct of deployTREXImplementationAuthority
VersionStruct == [major |-> 4, minor |-> 0, patch |-> 0]

\* The `contracts` argument of deployTREXImplementationAuthority: for every
\* component, the implementation deployment whose `.address` is passed.
ImplementationContracts ==
    [token |-> "Token",
     claimTopicsRegistry |-> "ClaimTopicsRegistry",
     identityRegistry |-> "IdentityRegistry",
     identityRegistryStorage |-> "IdentityRegistryStorage",
     trustedIssuersRegistry |-> "TrustedIssuersRegistry",
     modularCompliance |-> "ModularCompliance"]

\* variant of TREXContracts: the compliance implementation is left out
TREXContracts_WithoutCompliance(contracts) ==
    [tokenImplementation |-> contracts.token,
     ctrImplementation |-> contracts.claimTopicsRegistry,
     irImplementation |-> contracts.identityRegistry,
     irsImplementation |-> contracts.identityRegistryStorage,
     tirImplementation |-> contracts.trustedIssuersRegistry]

\* the struct passed to addAndUseTREXVersion next to the version
TREXContracts(contracts) ==
    [tokenImplementation |-> contracts.token,
     ctrImplementation |-> contracts.claimTopicsRegistry,
     irImplementation |-> contracts.identityRegistry,
     irsImplementation |-> contracts.identityRegistryStorage,
     tirImplementation |-> contracts.trustedIssuersRegistry,
     mcImplementation |-> contracts.modularCompliance]

\* ethers.utils.defaultAbiCoder.encode(types, values)
AbiEncode(types, values) == [types |-> types, values |-> values]

\* ethers.utils.keccak256(bytes)
Keccak256(bytes) == [keccak |-> bytes]

\* the prefix of signMessage, "\x19Ethereum Signed Message:\n" + length
MessagePrefix == "\\x19Ethereum Signed Message:\\n32"

\* wallet.signMessage(bytes): the signature over the prefixed hash
SignMessage(key, bytes) ==
    [signer |-> key, signed |-> Keccak256(<<MessagePrefix, bytes>>)]

\* variant of ClaimDigest: topic and identity change places
ClaimDigest_TopicFirst(identity, topic, data) ==
    Keccak256(AbiEncode(<<"uint256", "address", "bytes">>, <<topic, identity, data>>))

\* lines 323-330: keccak256(encode(['address','uint256','bytes'],
\* [claim.identity, claim.topic, claim.data]))
ClaimDigest(identity, topic, data) ==
    Keccak256(AbiEncode(<<"address", "uint256", "bytes">>, <<identity, topic, data>>))

\* lines 322-331: claim.signature
ClaimSignature(key, identity, topic, data) ==
    SignMessage(key, ClaimDigest(identity, topic, data))

\* claimTopics[0] = ethers.utils.id('CLAIM_TOPIC')
ClaimTopic == "CLAIM_TOPIC"

\* claimIssuerSigningKey: Wallet.createRandom(), or the wallet of
\* TREX_CLAIM_ISSUER_SIGNING_KEY_PRIVATE_KEY
ClaimIssuerSigningKey == ValidKey + 2

\* hexlify(toUtf8Bytes('Some claim public data.'))
ClaimData == "Some claim public data."

\* keccak256(defaultAbiCoder.encode(['address'], [address])): the key hash
\* addKey registers
KeyHash(address) == Keccak256(AbiEncode(<<"address">>, <<address>>))

\* claimForAlice / claimForBob and the addClaim call made with it: the
\* identity contract called and the arguments; `identity` is the deployment
\* whose address is claim.identity
ClaimArgs(identity) ==
    [to |-> identity,
     topic |-> ClaimTopic,
     scheme |-> 1,
     issuer |-> "ClaimIssuer",
     signature |-> ClaimSignature(ClaimIssuerSigningKey, identity, ClaimTopic, ClaimData),
     data |-> ClaimData]

\* the arguments of a transaction that the model keeps; a contract address is
\* the name of the deployment whose `.address` the script passes
NoCallArgs == [version |-> << >>, contracts |-> << >>]

CallArgs(name) ==
    CASE name = "addAndUseTREXVersion" ->
             [version |-> VersionStruct, contracts |-> TREXContracts(ImplementationContracts)]
      [] name = "ImplementationAuthority" -> [implementation |-> "Identity"]
      [] name = "IdentityFactory" -> [implementationAuthority |-> "ImplementationAuthority"]
      [] name = "addClaimTopic" -> [topic |-> ClaimTopic]
      [] name = "claimIssuerContract.addKey" ->
             [key |-> KeyHash(AddrOfKey(ClaimIssuerSigningKey)), purpose |-> 3, keyType |-> 1]
      [] name = "addTrustedIssuer" -> [issuer |-> "ClaimIssuer", topics |-> {ClaimTopic}]
      [] name = "aliceIdentity.addClaim" -> ClaimArgs("aliceIdentity")
      [] name = "bobIdentity.addClaim" -> ClaimArgs("bobIdentity")
      [] name = "batchRegisterIdentity" ->
             [wallets |-> << "aliceWallet", "bobWallet" >>,
              identities |-> << "aliceIdentity", "bobIdentity" >>,
              countries |-> << 42, 666 >>]
      [] name = "mint(alice)" -> [to |-> "aliceWallet", amount |-> 1000]
      [] name = "mint(bob)" -> [to |-> "bobWallet", amount |-> 500]
      [] OTHER -> NoCallArgs

\* the roles whose `.address` the returned address table reads
ReturnReads(e) ==
    IF e = "full" THEN RoleSet
    ELSE IF e = "infra2"
         THEN {"deployer", "tokenIssuer", "tokenAgent", "tokenAdmin", "claimIssuer"}
         ELSE {}

\* the four `await resolveRoleSigner(..)` statements of the first
\* infrastructure script (lines 147-150)
Resolutions ==
    << Stmt("resolve", "tokenIssuer", "deployer", FALSE, {}),
       Stmt("resolve", "tokenAgent", "deployer", FALSE, {}),
       Stmt("resolve", "tokenAdmin", "deployer", FALSE, {}),
       Stmt("resolve", "claimIssuer", "deployer", FALSE, {}) >>

\* the statements of script e, from getSigners to the return
Statements(e) ==
    << Stmt("getSigners", "", "deployer", FALSE, {}) >>
    \o (IF e = "infra1" THEN Resolutions ELSE << >>)
    \o Implementations \o IdentityAuthority \o TREXAuthority
    \o Proxies(e = "infra1")
    \o (IF e = "full" THEN FullWiring ELSE InfraWiring)
    \o << Stmt("return", "", "deployer", FALSE, ReturnReads(e)) >>

\* deployFullSuite (deployIdentity.ts:183-426)
ProgramFull == Statements("full")

\* deployTREXSuiteInfrastructure (deployTREXSuiteInfrastructure.ts:133-323)
ProgramInfra1 == Statements("infra1")

\* deployTREXSuiteInfrastructure, second script (lines 456-600)
ProgramInfra2 == Statements("infra2")

\* a script that is modelled by its own steps has no statement list
NoProgram == << Stmt("script", "", "deployer", FALSE, {}) >>

Program(e) ==
    IF e = "full" THEN ProgramFull
    ELSE IF e = "infra1" THEN ProgramInfra1
    ELSE IF e = "infra2" THEN ProgramInfra2
    ELSE NoProgram

----------------------------------------------------------------------------
(* Role resolution *)

\* JavaScript truthiness of an environment value: unset and "" are falsy
Truthy(v) == v # EnvUnset /\ v # EnvEmpty

\* variant of ResolveRoleSigner: the pooled signer is preferred to the key
ResolveRoleSigner_PoolFirst(envKeyValue, availableSigner, deployer) ==
    IF availableSigner # Undefined
    THEN [signer |-> availableSigner, warn |-> FALSE, throws |-> FALSE]
    ELSE IF Truthy(envKeyValue)
         THEN IF envKeyValue = MalformedKey
              THEN [signer |-> Undefined, warn |-> FALSE, throws |-> TRUE]
              ELSE [signer |-> AddrOfKey(envKeyValue), warn |-> FALSE, throws |-> FALSE]
         ELSE [signer |-> deployer, warn |-> TRUE, throws |-> FALSE]

\* variant of ResolveRoleSigner: the fallback to the deployer is silent
ResolveRoleSigner_SilentFallback(envKeyValue, availableSigner, deployer) ==
    IF Truthy(envKeyValue)
    THEN IF envKeyValue = MalformedKey
         THEN [signer |-> Undefined, warn |-> FALSE, throws |-> TRUE]
         ELSE [signer |-> AddrOfKey(envKeyValue), warn |-> FALSE, throws |-> FALSE]
    ELSE IF availableSigner # Undefined
         THEN [signer |-> availableSigner, warn |-> FALSE, throws |-> FALSE]
         ELSE [signer |-> deployer, warn |-> FALSE, throws |-> FALSE]

\* resolveRoleSigner(role, availableSigner, provider, deployer): the signer it
\* returns, whether it wrote the fallback warning, and whether it threw
\* (new Wallet rejects a string that is no private key).
ResolveRoleSigner(envKeyValue, availableSigner, deployer) ==
    IF Truthy(envKeyValue)
    THEN IF envKeyValue = MalformedKey
         THEN [signer |-> Undefined, warn |-> FALSE, throws |-> TRUE]
         ELSE [signer |-> AddrOfKey(envKeyValue), warn |-> FALSE, throws |-> FALSE]
    ELSE IF availableSigner # Undefined
         THEN [signer |-> availableSigner, warn |-> FALSE, throws |-> FALSE]
         ELSE [signer |-> deployer, warn |-> TRUE, throws |-> FALSE]

----------------------------------------------------------------------------
(* The run *)

Line(stream, msg, role) ==
    [stream |-> stream, msg |-> msg, role |-> role, addr |-> AddressZero]

\* a console line that prints an address
AddrLine(stream, msg, addr) ==
    [stream |-> stream, msg |-> msg, role |-> "", addr |-> addr]

\* an exception leaves the deployment function and reaches main().catch:
\* console.error(..); process.exitCode = 1
Throw(e) ==
    /\ status' = "failed"
    /\ error' = e
    /\ exitCode' = 1
    /\ console' = Append(console, Line("error", e, ""))
    /\ UNCHANGED <<entry, pool, env, signers, pc, txs, confirmed, reverted, printed>>

\* the same, after the lines the statement wrote before it threw
ThrowAfter(lines, e) ==
    /\ status' = "failed"
    /\ error' = e
    /\ exitCode' = 1
    /\ console' = Append(lines, Line("error", e, ""))
    /\ UNCHANGED <<entry, pool, env, signers, pc, txs, confirmed, reverted, printed>>

Current == Program(entry)[pc]

\* the account a transaction of signer variable `by` is sent from;
\* ethers.deployContract(name, args, undefined) uses the default signer
SignerAccount(by) ==
    IF signers[by] = Undefined THEN signers["deployer"] ELSE signers[by]

\* the signer variables after `await ethers.getSigners()` and the destructuring
SignersOf(e, n) ==
    [r \in RoleSet |->
        IF e = "infra1" THEN (IF r = "deployer" THEN PoolSigner(n, 0) ELSE Undefined)
        ELSE IF e = "infra2" /\ PoolIndex(r) > 4 THEN Undefined
        ELSE PoolSigner(n, PoolIndex(r))]

\* ethers.getSigners(); the first infrastructure script also checks the pool
\* and the provider (lines 134-145)
GetSigners ==
    /\ UNCHANGED propertyVars
    /\ UNCHANGED studyVars
    /\ status = "running"
    /\ Current.op = "getSigners"
    /\ \/ /\ entry = "infra1"
          /\ pool = 0
          /\ Throw("NoSigner")
       \/ /\ entry = "infra1"
          /\ pool > 0
          /\ \E hasProvider \in BOOLEAN :
                IF hasProvider
                THEN /\ signers' = SignersOf(entry, pool)
                     /\ pc' = pc + 1
                     /\ UNCHANGED <<entry, pool, env, status, error, txs, confirmed, reverted,
                                    console, exitCode, printed>>
                ELSE /\ Throw("NoProvider")
       \/ /\ entry # "infra1"
          /\ signers' = SignersOf(entry, pool)
          /\ pc' = pc + 1
          /\ UNCHANGED <<entry, pool, env, status, error, txs, confirmed, reverted,
                         console, exitCode, printed>>

\* const <role> = await resolveRoleSigner('<role>', availableSigners[i], provider, deployer)
ResolveRole ==
    /\ UNCHANGED propertyVars
    /\ UNCHANGED studyVars
    /\ status = "running"
    /\ Current.op = "resolve"
    /\ LET role == Current.name
           r == ResolveRoleSigner(env[role], PoolSigner(pool, PoolIndex(role)),
                                  signers["deployer"])
       IN IF r.throws
          THEN /\ Throw("InvalidPrivateKey")
          ELSE /\ signers' = [signers EXCEPT ![role] = r.signer]
               /\ console' = IF r.warn
                             THEN Append(console, Line("warn", "NoDedicatedSigner", role))
                             ELSE console
               /\ pc' = pc + 1
               /\ UNCHANGED <<entry, pool, env, status, error, txs, confirmed, reverted,
                              exitCode, printed>>

\* a deployment or a contract call is sent; the statement completes as soon as
\* the transaction is sent unless the script awaits c.deployed()
Submit ==
    /\ UNCHANGED propertyVars
    /\ UNCHANGED studyVars
    /\ status = "running"
    /\ Current.op \in {"deploy", "call"}
    /\ IF \E r \in Current.reads : signers[r] = Undefined
       THEN /\ Throw("TypeError")
       ELSE /\ txs' = Append(txs, [name |-> Current.name, from |-> SignerAccount(Current.by),
                                   args |-> CallArgs(Current.name)])
            /\ IF Current.wait
               THEN status' = "awaiting" /\ pc' = pc
               ELSE status' = "running" /\ pc' = pc + 1
            /\ UNCHANGED <<entry, pool, env, signers, error, confirmed, reverted, console,
                           exitCode, printed>>

\* const tokenDecimals = BigNumber.from(process.env.TREX_TOKEN_DECIMALS ?? '0')
ParseTokenDecimals ==
    /\ UNCHANGED propertyVars
    /\ UNCHANGED studyVars
    /\ status = "running"
    /\ Current.op = "parse"
    /\ LET tokenDecimals ==
               BigNumberFrom(IF inputs.decimals.t = "undefined" THEN "0"
                             ELSE inputs.decimals.text)
       IN IF tokenDecimals.ok
          THEN /\ pc' = pc + 1
               /\ UNCHANGED <<entry, pool, env, signers, status, error, txs, confirmed, reverted,
                              console, exitCode, printed>>
          ELSE /\ Throw("InvalidBigNumber")

\* the provider rejects the transaction (gas estimation, nonce, transport)
SendFails ==
    /\ UNCHANGED propertyVars
    /\ UNCHANGED studyVars
    /\ status = "running"
    /\ Current.op \in {"deploy", "call"}
    /\ \A r \in Current.reads : signers[r] # Undefined
    /\ Throw("SendFailed")

\* `await c.deployed()` returns: the deployment just sent has been mined
Deployed ==
    /\ UNCHANGED propertyVars
    /\ UNCHANGED studyVars
    /\ status = "awaiting"
    /\ Len(txs) \in confirmed \ reverted
    /\ status' = "running"
    /\ pc' = pc + 1
    /\ UNCHANGED <<entry, pool, env, signers, error, txs, confirmed, reverted, console,
                   exitCode, printed>>

\* `await c.deployed()` rejects: the deployment reverted or was never mined
DeployedFails ==
    /\ UNCHANGED propertyVars
    /\ UNCHANGED studyVars
    /\ status = "awaiting"
    /\ Len(txs) \notin confirmed \ reverted
    /\ Throw("ConfirmationFailed")

\* the ledger mines a pending transaction; transactions of one account are
\* mined in nonce order
Confirm ==
    \E i \in (1..Len(txs)) \ confirmed :
        /\ \A j \in 1..(i - 1) : txs[j].from = txs[i].from => j \in confirmed
        /\ confirmed' = confirmed \cup {i}
        /\ UNCHANGED <<entry, pool, env, signers, pc, status, error, txs, reverted,
                       console, exitCode, printed>>
        /\ UNCHANGED propertyVars
        /\ UNCHANGED studyVars

\* largest number of transactions of one run whose execution reverts
MaxReverts == 1

\* the ledger mines a pending transaction and its execution reverts: the
\* transaction is in a block, its effects are not
Revert ==
    /\ Cardinality(reverted) < MaxReverts
    /\ \E i \in (1..Len(txs)) \ confirmed :
          /\ \A j \in 1..(i - 1) : txs[j].from = txs[i].from => j \in confirmed
          /\ confirmed' = confirmed \cup {i}
          /\ reverted' = reverted \cup {i}
          /\ UNCHANGED <<entry, pool, env, signers, pc, status, error, txs,
                         console, exitCode, printed>>
          /\ UNCHANGED propertyVars
          /\ UNCHANGED studyVars

\* return { accounts: .., suite: .., .. }; main logs the table
Return ==
    /\ UNCHANGED propertyVars
    /\ UNCHANGED studyVars
    /\ status = "running"
    /\ Current.op = "return"
    /\ IF \E r \in Current.reads : signers[r] = Undefined
       THEN /\ Throw("TypeError")
       ELSE /\ status' = "done"
            /\ printed' = TRUE
            /\ console' = Append(console, Line("log", "TREX suite deployed successfully!", ""))
            /\ UNCHANGED <<entry, pool, env, signers, pc, error, txs, confirmed, reverted,
                           exitCode>>

----------------------------------------------------------------------------
(* deployPropertyToken: values of the factory's event log *)

\* largest number of logs in the receipt of the deployTREXSuite transaction
MaxLogs == 3

\* A JavaScript value found in parsedLog.args: t is its typeof ("undefined",
\* "string", "object"); a string is an address text (a: the 160-bit number it
\* spells, form: how it is written) and an object is one whose toString()
\* yields that text.  Forms: "checksum" (EIP-55 mixed case), "lower" (all
\* lower case), "badcase" (mixed case with a wrong checksum), "0x" (the empty
\* hex string; a = 0), "text" (no address at all; a = 0), "upper" (all upper
\* case digits), "noprefix" (forty hex digits without 0x), "icap" (the ICAP
\* spelling XE..), "short" (0x and fewer than forty digits; a = 0).
Value(t, a, form) == [t |-> t, a |-> a, form |-> form]

UndefinedValue == Value("undefined", 0, "")

\* ethers.constants.AddressZero, "0x0000000000000000000000000000000000000000"
AddressZeroText == Value("string", AddressZero, "checksum")

AddressText(a) == Value("string", a, "checksum")

\* the spellings ethers.utils.getAddress accepts: forty hex digits with or
\* without 0x, in one case or with the right EIP-55 checksum, and ICAP
AddressForms == {"checksum", "lower", "upper", "noprefix", "icap"}

\* ethers.utils.isAddress(text): getAddress(text) does not throw
IsAddress(v) == v.t = "string" /\ v.form \in AddressForms

\* ethers.utils.getAddress(text): the checksummed form; defined when IsAddress
GetAddress(v) == Value("string", v.a, "checksum")

\* the keys of the arguments of TREXSuiteDeployed, in positional order
EventKeys == << "_token", "_ir", "_irs", "_tir", "_ctr", "_mc" >>

\* args[key]: `undefined` when the Result has no such named entry
Named(args, key) ==
    IF key \in DOMAIN args.named THEN args.named[key] ELSE UndefinedValue

\* args[index]: `undefined` beyond the end of the Result
Positional(args, index) ==
    IF index + 1 \in DOMAIN args.pos THEN args.pos[index + 1] ELSE UndefinedValue

\* variant of NormalizeAddressArg: the positional entry is preferred
NormalizeAddressArg_IndexFirst(args, key, index) ==
    LET candidate == IF Positional(args, index).t # "undefined"
                     THEN Positional(args, index)
                     ELSE Named(args, key)
        value == IF candidate.t = "string" THEN candidate
                 ELSE IF candidate.t = "object"
                      THEN Value("string", candidate.a, candidate.form)
                      ELSE UndefinedValue
    IN IF \/ value.t = "undefined"
          \/ value.form = "0x"
          \/ value = AddressZeroText
       THEN [ok |-> FALSE, address |-> UndefinedValue]
       ELSE IF IsAddress(value)
            THEN [ok |-> TRUE, address |-> GetAddress(value)]
            ELSE [ok |-> FALSE, address |-> UndefinedValue]

\* normalizeAddressArg(args, key, index): [ok |-> FALSE] when it throws,
\* else the address it returns
NormalizeAddressArg(args, key, index) ==
    LET candidate == IF Named(args, key).t # "undefined"
                     THEN Named(args, key)
                     ELSE Positional(args, index)
        value == IF candidate.t = "string" THEN candidate
                 ELSE IF candidate.t = "object"
                      THEN Value("string", candidate.a, candidate.form)
                      ELSE UndefinedValue
    IN IF \/ value.t = "undefined"
          \/ value.form = "0x"
          \/ value = AddressZeroText
       THEN [ok |-> FALSE, address |-> UndefinedValue]
       ELSE IF IsAddress(value)
            THEN [ok |-> TRUE, address |-> GetAddress(value)]
            ELSE [ok |-> FALSE, address |-> UndefinedValue]

\* suiteAddresses before any assignment
NoSuite ==
    [token |-> UndefinedValue,
     identityRegistry |-> UndefinedValue,
     identityRegistryStorage |-> UndefinedValue,
     trustedIssuersRegistry |-> UndefinedValue,
     claimTopicsRegistry |-> UndefinedValue,
     modularCompliance |-> UndefinedValue]

\* the object literal of lines 634-641: every field normalised, or an exception
\* (NoSuite: the assignment did not happen)
SuiteOf(args) ==
    LET token == NormalizeAddressArg(args, "_token", 0)
        ir == NormalizeAddressArg(args, "_ir", 1)
        irs == NormalizeAddressArg(args, "_irs", 2)
        tir == NormalizeAddressArg(args, "_tir", 3)
        ctr == NormalizeAddressArg(args, "_ctr", 4)
        mc == NormalizeAddressArg(args, "_mc", 5)
    IN IF token.ok /\ ir.ok /\ irs.ok /\ tir.ok /\ ctr.ok /\ mc.ok
       THEN [token |-> token.address,
             identityRegistry |-> ir.address,
             identityRegistryStorage |-> irs.address,
             trustedIssuersRegistry |-> tir.address,
             claimTopicsRegistry |-> ctr.address,
             modularCompliance |-> mc.address]
       ELSE NoSuite

\* The loop of lines 629-647 from log i on.  parseLog throws on a log of
\* another contract; an exception of normalizeAddressArg is thrown inside the
\* same try block, so the catch swallows it and the loop goes on.
RECURSIVE ExtractFrom(_, _)
ExtractFrom(logs, i) ==
    IF i > Len(logs) THEN NoSuite
    ELSE LET log == logs[i]
             suite == SuiteOf(log.args)
         IN IF ~log.decodes THEN ExtractFrom(logs, i + 1)
            ELSE IF log.name # "TREXSuiteDeployed" THEN ExtractFrom(logs, i + 1)
            ELSE IF suite = NoSuite THEN ExtractFrom(logs, i + 1)
            ELSE suite

ExtractSuiteAddresses(logs) == ExtractFrom(logs, 1)

----------------------------------------------------------------------------
(* deployPropertyToken: the receipts considered *)

NoArgs == [named |-> << >>, pos |-> << >>]

ForeignLog == [decodes |-> FALSE, name |-> "", args |-> NoArgs]

OtherEventLog == [decodes |-> TRUE, name |-> "Deployed", args |-> NoArgs]

\* the address the factory emits for field k of the event in log i
Emitted(i, k) == 10 * i + k

\* A TREXSuiteDeployed log at position i of the receipt.  Every argument is
\* decoded as ethers does (named and positional entry, checksummed) except
\* argument k, which is written as `mode` says.
EventLog(i, k, mode) ==
    LET std(j) == AddressText(Emitted(i, j))
        odd == CASE mode = "lower" -> Value("string", Emitted(i, k), "lower")
                 [] mode = "object" -> Value("object", Emitted(i, k), "checksum")
                 [] mode = "zero" -> AddressZeroText
                 [] mode = "0x" -> Value("string", 0, "0x")
                 [] mode = "badcase" -> Value("string", Emitted(i, k), "badcase")
                 [] OTHER -> std(k)
        keys == {EventKeys[j] : j \in 1..Len(EventKeys)}
        keyOf(j) == EventKeys[j + 1]
        idx(key) == (CHOOSE j \in 1..Len(EventKeys) : EventKeys[j] = key) - 1
    IN [decodes |-> TRUE,
        name |-> "TREXSuiteDeployed",
        args |->
          [named |-> [key \in (IF mode \in {"unnamed", "missing"}
                               THEN keys \ {keyOf(k)} ELSE keys) |->
                         IF idx(key) = k THEN odd ELSE std(idx(key))],
           pos |-> IF mode = "missing" /\ k = 5
                   THEN [j \in 1..5 |-> std(j - 1)]
                   ELSE [j \in 1..6 |->
                           IF j - 1 # k THEN std(j - 1)
                           ELSE IF mode = "renamed" THEN AddressText(Emitted(i, k) + 100)
                           ELSE IF mode = "missing" THEN UndefinedValue
                           ELSE odd]]]

\* how one argument of an event may be written
ArgModes == {"unnamed", "renamed", "zero", "missing"}

\* the ways a single event is written that are tried once, on argument 0
RareModes == {"lower", "object", "0x", "badcase"}

\* The kinds of log a receipt is made of: a log of another contract, another
\* event of the factory, or a TREXSuiteDeployed event with argument k written
\* in some mode.  The first TREXSuiteDeployed log of a receipt is written in
\* any way (EventKinds); the ones after it are of a few kinds (LaterKinds).
EventKinds ==
    {<<0, "standard">>}
    \cup {<<k, m>> : k \in 0..5, m \in ArgModes}
    \cup {<<0, m>> : m \in RareModes}

LaterKinds == {<<0, "standard">>, <<0, "zero">>, <<3, "unnamed">>, <<5, "missing">>}

UnrelatedKinds == {<<0, "foreign">>, <<0, "other">>}

IsEventKind(c) == c \notin UnrelatedKinds

\* the log of kind c at position i of a receipt
LogOf(c, i) ==
    IF c[2] = "foreign" THEN ForeignLog
    ELSE IF c[2] = "other" THEN OtherEventLog
    ELSE EventLog(i, c[1], c[2])

\* largest number of TREXSuiteDeployed logs in one receipt
MaxEvents == 2

\* the kind sequences of length n: unrelated logs and at most MaxEvents events
\* (the first event of a shape is a placeholder: ReceiptOf replaces it)
ReceiptShapes(n) ==
    {cs \in [1..n -> UnrelatedKinds \cup LaterKinds] :
        /\ Cardinality({i \in 1..n : IsEventKind(cs[i])}) <= MaxEvents
        /\ \A i \in 1..n :
              (IsEventKind(cs[i]) /\ \A j \in 1..(i - 1) : ~IsEventKind(cs[j]))
                  => cs[i] = <<0, "standard">>}

\* the kinds the first TREXSuiteDeployed log of a receipt of shape cs may have
FirstKinds(cs) ==
    IF \E i \in 1..Len(cs) : IsEventKind(cs[i]) THEN EventKinds ELSE {<<0, "standard">>}

\* the receipt of shape cs whose first TREXSuiteDeployed log is of kind `first`
ReceiptOf(cs, first) ==
    [i \in 1..Len(cs) |->
        IF IsEventKind(cs[i]) /\ \A j \in 1..(i - 1) : ~IsEventKind(cs[j])
        THEN LogOf(first, i)
        ELSE LogOf(cs[i], i)]

----------------------------------------------------------------------------
(* Functions studied on their own: the run variables stay at rest *)

runVars == <<entry, pool, env, signers, pc, status, error, txs, confirmed, reverted,
             console, exitCode, printed>>

\* the state of a study of function e before it is applied
AtRest(e) ==
    /\ entry = e
    /\ pool = 1
    /\ env = [r \in RoleKeys |-> EnvUnset]
    /\ signers = [r \in RoleSet |-> Undefined]
    /\ pc = 0
    /\ status = "running"
    /\ error = ""
    /\ txs = << >>
    /\ confirmed = {}
    /\ reverted = {}
    /\ console = << >>
    /\ exitCode = 0
    /\ printed = FALSE
    /\ step = "none"
    /\ getTokenResult = "none"
    /\ existingDeployment = AddressZero
    /\ receipt = << >>
    /\ suiteAddresses = NoSuite
    /\ queries = << >>
    /\ result = NoResult

----------------------------------------------------------------------------
(* Input validation *)

\* requireAddress(label, value): [ok |-> FALSE] when it throws, else the
\* address it returns
RequireAddress(value) ==
    IF ~IsAddress(value)
    THEN [ok |-> FALSE, address |-> UndefinedValue]
    ELSE [ok |-> TRUE, address |-> GetAddress(value)]

\* variant of ParseDecimals: the upper limit is not tested
ParseDecimals_NoUpperLimit(raw, fallback) ==
    LET source == IF raw.t = "undefined" THEN fallback ELSE raw.text
        parsed == NumberOf(source)
    IN IF parsed.nan \/ ~parsed.integer \/ parsed.n < 0
       THEN [ok |-> FALSE, value |-> 0]
       ELSE [ok |-> TRUE, value |-> parsed.n]

\* parseDecimals(raw, fallback): [ok |-> FALSE] when it throws
ParseDecimals(raw, fallback) ==
    LET source == IF raw.t = "undefined" THEN fallback ELSE raw.text
        parsed == NumberOf(source)
    IN IF parsed.nan \/ ~parsed.integer \/ parsed.n < 0 \/ parsed.n > 18
       THEN [ok |-> FALSE, value |-> 0]
       ELSE [ok |-> TRUE, value |-> parsed.n]

\* String.prototype.trim on a sequence of characters
RECURSIVE Trim(_)
Trim(chars) ==
    IF chars = << >> THEN << >>
    ELSE IF Head(chars) = " " THEN Trim(Tail(chars))
    ELSE IF chars[Len(chars)] = " " THEN Trim(SubSeq(chars, 1, Len(chars) - 1))
    ELSE chars

\* variant of RequireSalt: a salt that is empty after trimming is accepted
RequireSalt_AcceptsBlank(input) == [ok |-> TRUE, salt |-> Trim(input)]

\* variant of RequireSalt: the input is not trimmed
RequireSalt_NoTrim(input) ==
    IF input = << >> THEN [ok |-> FALSE, salt |-> << >>]
    ELSE [ok |-> TRUE, salt |-> input]

\* requireSalt(input): [ok |-> FALSE] when it throws
RequireSalt(input) ==
    LET salt == Trim(input)
    IN IF salt = << >> THEN [ok |-> FALSE, salt |-> << >>]
       ELSE [ok |-> TRUE, salt |-> salt]

\* DEFAULT_FACTORY_PLACEHOLDER and the default token name "Luxury Villa A4"
DefaultFactory == AddressText(8)

DefaultTokenName == << "L", "V" >>

\* line 566: process.env.PROPERTY_TOKEN_NAME?.trim() || "Luxury Villa A4"
PropertyTokenName(raw) ==
    LET trimmed == IF raw.t = "undefined" THEN << >> ELSE Trim(raw.text)
    IN IF trimmed = << >> THEN DefaultTokenName ELSE trimmed

\* line 564: the factory address after requireAddress
FactoryAddress(in) ==
    RequireAddress(IF in.factory.t = "undefined" THEN DefaultFactory ELSE in.factory)

\* line 574: requireSalt(process.env.PROPERTY_TOKEN_SALT ?? propertyTokenName)
DeploymentSalt(in) ==
    RequireSalt(IF in.salt.t = "undefined" THEN PropertyTokenName(in.name)
                ELSE in.salt.text)

\* lines 570-572: the property owner after requireAddress, for a pool of n
\* signers: process.env.PROPERTY_OWNER_ADDRESS ?? secondarySigner?.address ??
\* deployer.address
PropertyOwnerAddress(n, in) ==
    RequireAddress(IF in.owner.t # "undefined" THEN in.owner
                   ELSE IF PoolSigner(n, 1) # Undefined
                        THEN AddressText(PoolSigner(n, 1))
                        ELSE AddressText(PoolSigner(n, 0)))

\* variant of UniqueAgents: the array is not passed through a Set
UniqueAgents_NoSet(deployerAddress, propertyOwnerAddress) ==
    << deployerAddress, propertyOwnerAddress >>

\* line 598: Array.from(new Set([deployer.address, propertyOwnerAddress])):
\* the distinct strings in insertion order
UniqueAgents(deployerAddress, propertyOwnerAddress) ==
    IF propertyOwnerAddress = deployerAddress
    THEN << deployerAddress >>
    ELSE << deployerAddress, propertyOwnerAddress >>

\* lines 600-611: tokenDetails
TokenDetails(n, in) ==
    LET agents == UniqueAgents(AddressText(PoolSigner(n, 0)),
                               PropertyOwnerAddress(n, in).address)
    IN [owner |-> PropertyOwnerAddress(n, in).address,
        name |-> PropertyTokenName(in.name),
        decimals |-> ParseDecimals(in.decimals, "0").value,
        irs |-> AddressZeroText,
        ONCHAINID |-> AddressZeroText,
        irAgents |-> agents,
        tokenAgents |-> agents]

\* the values of TREX_FACTORY_ADDRESS, PROPERTY_TOKEN_DECIMALS,
\* PROPERTY_OWNER_ADDRESS and PROPERTY_TOKEN_SALT considered
FactoryInputs == {UndefinedValue, Value("string", 0, "text"), Value("string", 9, "lower")}

DecimalsInputs == {NoText, Text("18"), Text("19"), Text("abc"), Text("1.5")}

OwnerInputs == {UndefinedValue, Value("string", 4, "badcase"),
                Value("string", 1, "lower"), Value("string", 3, "upper")}

SaltInputs == {NoText, Text(<< " " >>), Text(<< " ", "a" >>)}

\* the values of PROPERTY_TOKEN_NAME considered
NameInputs == {NoText, Text(<< " " >>), Text(<< " ", "b", " " >>)}

\* the address numbers and the spellings the study of requireAddress draws from
AddressNumbers == 0..5

\* the strings passed to requireAddress: an address number in a spelling that
\* can carry it, or a string that spells no address
AddressInputs ==
    {Value("string", a, f) : a \in AddressNumbers, f \in AddressForms \cup {"badcase"}}
    \cup {Value("string", 0, f) : f \in {"0x", "text", "short"}}

\* the strings passed to parseDecimals: unset, the numerals, and strings that
\* are no decimal numeral
ParseInputs ==
    {NoText}
    \cup {Text(ToString(n)) : n \in Numerals}
    \cup {Text(t) : t \in {"", " ", " 7 ", "1e1", "0x12", "18.0", "1.5", "abc"}}

InitDecimals ==
    /\ AtRest("parseDecimals")
    /\ inputs \in [raw : ParseInputs]

\* parseDecimals(process.env.PROPERTY_TOKEN_DECIMALS, 0) is called; an
\* exception ends the script
ApplyParseDecimals ==
    /\ status = "running"
    /\ result = NoResult
    /\ LET r == ParseDecimals(inputs.raw, "0")
       IN IF r.ok
          THEN /\ result' = Returned(r.value)
               /\ UNCHANGED runVars
          ELSE /\ Throw("InvalidDecimals")
               /\ UNCHANGED result
    /\ UNCHANGED <<inputs, queries>>
    /\ UNCHANGED propertyVars

NextDecimals == ApplyParseDecimals

SpecDecimals == InitDecimals /\ [][NextDecimals]_vars

\* the three scripts that define requireAddress
AddressScripts == {"deployIdentity", "registerIdentity", "deployPropertyToken"}

InitAddress ==
    /\ \E script \in AddressScripts : AtRest(script)
    /\ inputs \in [value : AddressInputs]

\* requireAddress(label, value) is called; an exception ends the script
ApplyRequireAddress ==
    /\ status = "running"
    /\ result = NoResult
    /\ LET r == RequireAddress(inputs.value)
       IN IF r.ok
          THEN /\ result' = Returned(r.address)
               /\ UNCHANGED runVars
          ELSE /\ Throw("InvalidAddress")
               /\ UNCHANGED result
    /\ UNCHANGED <<inputs, queries>>
    /\ UNCHANGED propertyVars

NextAddress == ApplyRequireAddress

SpecAddress == InitAddress /\ [][NextAddress]_vars

----------------------------------------------------------------------------
(* deployPropertyToken: main() *)

\* trexFactory.getToken(salt) reverted or could not be sent
Reverted == 0 - 1

\* the address of a suite the factory already holds for the salt
ExistingToken == 77

\* what `await trexFactory.getToken(deploymentSalt)` may do
GetTokenOutcomes == {Reverted, AddressZero, ExistingToken}

\* variant of GetTokenCatch: the catch block rethrows
GetTokenCatch_Rethrow(outcome) ==
    IF outcome = Reverted
    THEN [existing |-> AddressZero, warn |-> FALSE, throws |-> TRUE]
    ELSE [existing |-> outcome, warn |-> FALSE, throws |-> FALSE]

\* lines 580-589: existingDeployment after the try/catch around getToken, and
\* whether the catch block wrote its warning
GetTokenCatch(outcome) ==
    IF outcome = Reverted
    THEN [existing |-> AddressZero, warn |-> TRUE, throws |-> FALSE]
    ELSE [existing |-> outcome, warn |-> FALSE, throws |-> FALSE]

\* variant of IsExistingDeployment: the guard never fires
IsExistingDeployment_Never(existing) == FALSE

\* line 590: existingDeployment && existingDeployment !== ethers.constants.AddressZero
IsExistingDeployment(existing) == existing # Undefined /\ existing # AddressZero

\* variant of EarlyReturn: the conflict is raised as an error
EarlyReturn_Throws(lines, existing) ==
    /\ console' = Append(lines, AddrLine("error", "ExistingSuiteDetected", existing))
    /\ status' = "failed"
    /\ step' = "finished"
    /\ error' = "ExistingSuiteDetected"
    /\ exitCode' = 1

\* lines 591-595: console.log(..existingDeployment..); return
EarlyReturn(lines, existing) ==
    /\ console' = Append(lines, AddrLine("log", "ExistingSuiteDetected", existing))
    /\ status' = "done"
    /\ step' = "finished"
    /\ UNCHANGED <<error, exitCode>>

\* lines 561-574: the signers, the environment and the validation of its
\* values, in source order; the first rejected input throws
Configure ==
    /\ status = "running"
    /\ step = "configure"
    /\ LET deployer == PoolSigner(pool, 0)
           factoryAddress == FactoryAddress(inputs)
           propertyTokenDecimals == ParseDecimals(inputs.decimals, "0")
           propertyOwnerAddress == PropertyOwnerAddress(pool, inputs)
           deploymentSalt == DeploymentSalt(inputs)
       IN IF ~factoryAddress.ok THEN Throw("InvalidFactoryAddress") /\ UNCHANGED step
          ELSE IF ~propertyTokenDecimals.ok THEN Throw("InvalidDecimals") /\ UNCHANGED step
          ELSE IF ~propertyOwnerAddress.ok THEN Throw("InvalidOwnerAddress") /\ UNCHANGED step
          ELSE IF ~deploymentSalt.ok THEN Throw("EmptySalt") /\ UNCHANGED step
          ELSE /\ step' = "ensureContractDeployed"
               /\ signers' = [signers EXCEPT !["deployer"] = deployer]
               /\ UNCHANGED <<entry, pool, env, pc, status, error, txs, confirmed, reverted,
                              console, exitCode, printed>>
    /\ UNCHANGED <<getTokenResult, existingDeployment, receipt, suiteAddresses>>
    /\ UNCHANGED studyVars

\* what `await ethers.provider.getCode(address)` may do: the request fails,
\* or it returns the code at the address, "0x" where there is none
GetCodeRejected == "rejected"

GetCodeOutcomes == {GetCodeRejected, "0x", "0x6080"}

\* variant of HasNoBytecode: the test never fires
HasNoBytecode_Never(code) == FALSE

\* line 487: code === "0x"
HasNoBytecode(code) == code = "0x"

\* line 576: ensureContractDeployed(factoryAddress, ..), lines 485-498
EnsureContractDeployed ==
    /\ status = "running"
    /\ step = "ensureContractDeployed"
    /\ \E code \in GetCodeOutcomes :
          /\ IF code = GetCodeRejected
             THEN /\ Throw("GetCodeFailed")
                  /\ UNCHANGED step
             ELSE IF HasNoBytecode(code)
             THEN /\ Throw("NoContractBytecode")
                  /\ UNCHANGED step
             ELSE /\ step' = "getToken"
                  /\ UNCHANGED <<entry, pool, env, signers, pc, status, error, txs,
                                 confirmed, reverted, console, exitCode, printed>>
          /\ queries' = Append(queries, [name |-> "getCode",
                                         arg |-> FactoryAddress(inputs).address,
                                         code |-> code])
    /\ UNCHANGED <<getTokenResult, existingDeployment, receipt, suiteAddresses>>
    /\ UNCHANGED <<inputs, result>>

\* lines 578-596: the duplicate-deployment check, on the contract instance
\* getContractAt("ITREXFactory", factoryAddress, deployer) returned
GetToken ==
    /\ status = "running"
    /\ step = "getToken"
    /\ \E outcome \in GetTokenOutcomes :
          LET c == GetTokenCatch(outcome)
              lines == IF c.warn
                       THEN Append(console, Line("warn", "GetTokenReverted", ""))
                       ELSE console
          IN /\ getTokenResult' = IF outcome = Reverted THEN "reverted" ELSE "returned"
             /\ IF c.throws
                THEN /\ Throw("GetTokenReverted")
                     /\ UNCHANGED <<step, existingDeployment>>
                ELSE /\ existingDeployment' = c.existing
                     /\ IF IsExistingDeployment(c.existing)
                        THEN EarlyReturn(lines, c.existing)
                        ELSE /\ console' = lines
                             /\ step' = "deployTREXSuite"
                             /\ UNCHANGED <<status, error, exitCode>>
                     /\ UNCHANGED <<entry, pool, env, signers, pc, txs, confirmed, reverted, printed>>
    /\ UNCHANGED <<receipt, suiteAddresses>>
    /\ queries' = Append(queries, [name |-> "getToken",
                                   to |-> FactoryAddress(inputs).address,
                                   arg |-> DeploymentSalt(inputs).salt])
    /\ UNCHANGED <<inputs, result>>

\* lines 598-622: const tx = await trexFactory.deployTREXSuite(salt, ..)
DeployTREXSuite ==
    /\ status = "running"
    /\ step = "deployTREXSuite"
    /\ txs' = Append(txs, [name |-> "deployTREXSuite", from |-> signers["deployer"],
                           args |-> [to |-> FactoryAddress(inputs).address,
                                     salt |-> DeploymentSalt(inputs).salt,
                                     tokenDetails |-> TokenDetails(pool, inputs)]])
    /\ console' = Append(console, Line("log", "SubmittedDeploymentTx", ""))
    /\ step' = "wait"
    /\ UNCHANGED <<entry, pool, env, signers, pc, status, error, confirmed, reverted,
                   exitCode, printed>>
    /\ UNCHANGED <<getTokenResult, existingDeployment, receipt, suiteAddresses>>
    /\ UNCHANGED studyVars

\* the provider rejects the deployTREXSuite transaction
DeployTREXSuiteFails ==
    /\ status = "running"
    /\ step = "deployTREXSuite"
    /\ Throw("SendFailed")
    /\ UNCHANGED propertyVars
    /\ UNCHANGED studyVars

\* variant of NotFound: the check after the loop is missing
NotFound_Never(found) == FALSE

\* line 649: if (!suiteAddresses)
NotFound(found) == found = NoSuite

\* lines 624-654: tx.wait() returns the receipt and its block is logged; the
\* logs are scanned and the suite is printed, or the missing event is reported
WaitReceipt ==
    /\ status = "running"
    /\ step = "wait"
    /\ Len(txs) \in confirmed
    /\ \E n \in 0..MaxLogs : \E cs \in ReceiptShapes(n) : \E first \in FirstKinds(cs) :
          LET logs == ReceiptOf(cs, first)
              found == ExtractSuiteAddresses(logs)
              lines == Append(console, Line("log", "TransactionConfirmed", ""))
          IN /\ receipt' = logs
             /\ suiteAddresses' = found
             /\ IF NotFound(found)
                THEN /\ ThrowAfter(lines, "EventNotFound")
                     /\ UNCHANGED step
                ELSE /\ status' = "done"
                     /\ step' = "finished"
                     /\ printed' = TRUE
                     /\ console' = Append(lines, Line("log", "SuiteDeployed", ""))
                     /\ UNCHANGED <<entry, pool, env, signers, pc, error, txs, confirmed, reverted,
                                    exitCode>>
    /\ UNCHANGED <<getTokenResult, existingDeployment>>
    /\ UNCHANGED studyVars

\* tx.wait() rejects: the transaction reverted
WaitFails ==
    /\ status = "running"
    /\ step = "wait"
    /\ Throw("ConfirmationFailed")
    /\ UNCHANGED propertyVars
    /\ UNCHANGED studyVars

Init ==
    /\ entry \in {"full", "infra1", "infra2"}
    /\ pool \in 0..MaxPool
    /\ entry # "infra1" => pool > 0
    /\ entry = "infra1" => pool <= IndexedSigners
    /\ env \in [RoleKeys -> EnvValues]
    /\ entry # "infra1" => \A r \in RoleKeys : env[r] = EnvUnset
    /\ signers = [r \in RoleSet |-> Undefined]
    /\ pc = 1
    /\ status = "running"
    /\ error = ""
    /\ txs = << >>
    /\ confirmed = {}
    /\ reverted = {}
    /\ console = << >>
    /\ exitCode = 0
    /\ printed = FALSE
    /\ step = "none"
    /\ getTokenResult = "none"
    /\ existingDeployment = AddressZero
    /\ receipt = << >>
    /\ suiteAddresses = NoSuite
    /\ inputs \in [decimals : TokenDecimalsInputs]
    /\ inputs.decimals # NoText => \A r \in RoleKeys : env[r] = EnvUnset
    /\ queries = << >>
    /\ result = NoResult

Next ==
    \/ GetSigners
    \/ ResolveRole
    \/ Submit
    \/ ParseTokenDecimals
    \/ SendFails
    \/ Deployed
    \/ DeployedFails
    \/ Confirm
    \/ Return

Spec == Init /\ [][Next]_vars

\* the suite deployments on a ledger where a mined transaction may revert,
\* for default inputs and a pool that holds every indexed signer
InitLedger ==
    /\ Init
    /\ pool \in {IndexedSigners, MaxPool}
    /\ \A r \in RoleKeys : env[r] = EnvUnset
    /\ inputs.decimals = NoText

NextLedger ==
    \/ Next
    \/ Revert

SpecLedger == InitLedger /\ [][NextLedger]_vars

\* deployPropertyToken alone, with one or two signers in the pool.  The
\* environments considered vary the token name, a well-formed factory
\* address and a well-formed owner address one at a time, the rejected
\* values of the other variables in every combination.
InitProperty ==
    /\ entry = "property"
    /\ pool \in 1..2
    /\ env = [r \in RoleKeys |-> EnvUnset]
    /\ signers = [r \in RoleSet |-> Undefined]
    /\ pc = 0
    /\ status = "running"
    /\ error = ""
    /\ txs = << >>
    /\ confirmed = {}
    /\ reverted = {}
    /\ console = << >>
    /\ exitCode = 0
    /\ printed = FALSE
    /\ step = "configure"
    /\ getTokenResult = "none"
    /\ existingDeployment = AddressZero
    /\ receipt = << >>
    /\ suiteAddresses = NoSuite
    /\ inputs \in [factory : FactoryInputs, decimals : DecimalsInputs,
                    owner : OwnerInputs, salt : SaltInputs, name : NameInputs]
    /\ inputs.name # NoText =>
          /\ inputs.factory = UndefinedValue
          /\ inputs.decimals = NoText
          /\ inputs.owner = UndefinedValue
          /\ inputs.salt = NoText
    /\ IsAddress(inputs.factory) =>
          /\ inputs.decimals = NoText
          /\ inputs.owner = UndefinedValue
          /\ inputs.salt = NoText
    /\ IsAddress(inputs.owner) =>
          /\ inputs.decimals = NoText
          /\ inputs.salt = NoText
    /\ queries = << >>
    /\ result = NoResult

NextProperty ==
    \/ Configure
    \/ EnsureContractDeployed
    \/ GetToken
    \/ DeployTREXSuite
    \/ DeployTREXSuiteFails
    \/ Confirm
    \/ WaitReceipt
    \/ WaitFails

SpecProperty == InitProperty /\ [][NextProperty]_vars

----------------------------------------------------------------------------
(* The scripts run after the suite deployment: deployIdentity               *)
(* (deployIdentity.ts:1-66), registerIdentity and checkVerification         *)

DownstreamScripts == {"deployIdentity", "registerIdentity", "checkVerification"}

\* the registry address written in the code (registerIdentity.ts:28,
\* checkVerification.ts:6), "0x51991f45EA1475C4C0eD37a9f615041a3b0bCc6C"
FixedIdentityRegistry == AddressText(51)

\* the fallback of IDENTITY_IMPLEMENTATION_AUTHORITY,
\* "0xd436Ac872F300c2b163D2d8ecBB1498AbEEe1DdC"
FixedIdentityAuthority == AddressText(36)

\* identity.address of the proxy the deployIdentity script deploys
NewUserIdentityAddress == 61

\* the environments considered: the values of IDENTITY_REGISTRY_ADDRESS,
\* USER_WALLET, AGENT_PRIVATE_KEY, PRIVATE_KEY, USER_IDENTITY_ADDRESS and
\* IDENTITY_IMPLEMENTATION_AUTHORITY
DownstreamInputs ==
    [registry : {UndefinedValue, AddressText(21), AddressText(22)},
     wallet : {UndefinedValue, Value("string", 3, "lower"), Value("string", 0, "text")},
     agentKey : {EnvUnset, EnvEmpty, ValidKey, MalformedKey},
     privateKey : {EnvUnset, ValidKey + 1},
     identity : {UndefinedValue, AddressText(41), Value("string", 0, "text")},
     authority : {UndefinedValue, AddressText(31)}]

\* process.env.AGENT_PRIVATE_KEY ?? process.env.PRIVATE_KEY; checkVerification
\* reads PRIVATE_KEY only
AgentPrivateKey(e, in) ==
    IF e = "checkVerification" THEN in.privateKey
    ELSE IF in.agentKey # EnvUnset THEN in.agentKey
    ELSE in.privateKey

\* the registry address the script builds its contract instance with
IdentityRegistryAddress(e, in) ==
    IF e = "registerIdentity" /\ in.registry.t # "undefined" THEN in.registry
    ELSE FixedIdentityRegistry

\* IDENTITY_IMPLEMENTATION_AUTHORITY of the deployIdentity script
IdentityImplementationAuthority(in) ==
    IF in.authority.t # "undefined" THEN in.authority ELSE FixedIdentityAuthority

\* variant of ConfigurationError: USER_WALLET is not passed to requireAddress
ConfigurationError_WalletUnchecked(e, in) ==
    IF e = "checkVerification"
    THEN IF in.wallet.t = "undefined" \/ ~Truthy(in.privateKey)
         THEN "MissingEnvironment" ELSE ""
    ELSE IF ~Truthy(AgentPrivateKey(e, in)) THEN "MissingPrivateKey"
    ELSE IF in.wallet.t = "undefined" THEN "MissingUserWallet"
    ELSE IF e = "registerIdentity" /\ in.identity.t = "undefined"
         THEN "MissingIdentityAddress"
    ELSE IF e = "registerIdentity" /\ ~IsAddress(in.identity)
         THEN "InvalidIdentityAddress"
    ELSE IF AgentPrivateKey(e, in) = MalformedKey THEN "InvalidPrivateKey"
    ELSE ""

\* the exception the part of main() before the transaction throws, "" if
\* none: the checks of the environment in source order, then
\* new ethers.Wallet(agentPrivateKey, provider), which rejects a string that
\* is no private key
ConfigurationError(e, in) ==
    IF e = "checkVerification"
    THEN IF in.wallet.t = "undefined" \/ ~Truthy(in.privateKey)
         THEN "MissingEnvironment" ELSE ""
    ELSE IF ~Truthy(AgentPrivateKey(e, in)) THEN "MissingPrivateKey"
    ELSE IF in.wallet.t = "undefined" THEN "MissingUserWallet"
    ELSE IF ~RequireAddress(in.wallet).ok THEN "InvalidUserWallet"
    ELSE IF e = "registerIdentity" /\ in.identity.t = "undefined"
         THEN "MissingIdentityAddress"
    ELSE IF e = "registerIdentity" /\ ~IsAddress(in.identity)
         THEN "InvalidIdentityAddress"
    ELSE IF AgentPrivateKey(e, in) = MalformedKey THEN "InvalidPrivateKey"
    ELSE ""

\* the transaction the script sends
ScriptTransaction(e, in) ==
    IF e = "deployIdentity"
    THEN [name |-> "identity", from |-> AddrOfKey(AgentPrivateKey(e, in)),
          args |-> [implementationAuthority |-> IdentityImplementationAuthority(in),
                    managementKey |-> RequireAddress(in.wallet).address]]
    ELSE [name |-> "batchRegisterIdentity(user)", from |-> AddrOfKey(AgentPrivateKey(e, in)),
          args |-> [to |-> IdentityRegistryAddress(e, in),
                    wallets |-> << RequireAddress(in.wallet).address >>,
                    identities |-> << in.identity >>,
                    countries |-> << 42 >>]]

InitDownstream ==
    /\ entry \in DownstreamScripts
    /\ pool = 1
    /\ env = [r \in RoleKeys |-> EnvUnset]
    /\ signers = [r \in RoleSet |-> Undefined]
    /\ pc = 1
    /\ status = "running"
    /\ error = ""
    /\ txs = << >>
    /\ confirmed = {}
    /\ reverted = {}
    /\ console = << >>
    /\ exitCode = 0
    /\ printed = FALSE
    /\ step = "configure"
    /\ getTokenResult = "none"
    /\ existingDeployment = AddressZero
    /\ receipt = << >>
    /\ suiteAddresses = NoSuite
    /\ inputs \in DownstreamInputs
    /\ queries = << >>
    /\ result = NoResult

\* the configuration part of main(): the environment is read and checked
ConfigureScript ==
    /\ entry \in DownstreamScripts
    /\ status = "running"
    /\ step = "configure"
    /\ LET e == ConfigurationError(entry, inputs)
       IN IF e # ""
          THEN /\ Throw(e)
               /\ UNCHANGED step
          ELSE /\ step' = IF entry = "checkVerification" THEN "query" ELSE "send"
               /\ console' = Append(console, Line("log", "Configured", ""))
               /\ UNCHANGED <<entry, pool, env, signers, pc, status, error, txs, confirmed,
                              reverted, exitCode, printed>>
    /\ UNCHANGED <<getTokenResult, existingDeployment, receipt, suiteAddresses>>
    /\ UNCHANGED studyVars

\* identityProxyFactory.deploy(..) / identityRegistry.batchRegisterIdentity(..)
SendScript ==
    /\ entry \in DownstreamScripts
    /\ status = "running"
    /\ step = "send"
    /\ txs' = Append(txs, ScriptTransaction(entry, inputs))
    /\ step' = "wait"
    /\ UNCHANGED <<entry, pool, env, signers, pc, status, error, confirmed, reverted,
                   console, exitCode, printed>>
    /\ UNCHANGED <<getTokenResult, existingDeployment, receipt, suiteAddresses>>
    /\ UNCHANGED studyVars

\* the provider rejects the transaction
SendScriptFails ==
    /\ entry \in DownstreamScripts
    /\ status = "running"
    /\ step = "send"
    /\ Throw("SendFailed")
    /\ UNCHANGED propertyVars
    /\ UNCHANGED studyVars

\* `await identity.deployed()` / `await tx.wait()` returns; the script prints
\* its result and ends
ScriptConfirmed ==
    /\ entry \in DownstreamScripts
    /\ status = "running"
    /\ step = "wait"
    /\ Len(txs) \in confirmed \ reverted
    /\ status' = "done"
    /\ step' = "finished"
    /\ printed' = TRUE
    /\ console' = IF entry = "deployIdentity"
                  THEN Append(console, AddrLine("log", "New Identity Contract Address",
                                                NewUserIdentityAddress))
                  ELSE Append(console, Line("log", "Transaction successful", ""))
    /\ UNCHANGED <<entry, pool, env, signers, pc, error, txs, confirmed, reverted, exitCode>>
    /\ UNCHANGED <<getTokenResult, existingDeployment, receipt, suiteAddresses>>
    /\ UNCHANGED studyVars

\* `await identity.deployed()` / `await tx.wait()` rejects
ScriptConfirmFails ==
    /\ entry \in DownstreamScripts
    /\ status = "running"
    /\ step = "wait"
    /\ Len(txs) \notin confirmed \ reverted
    /\ Throw("ConfirmationFailed")
    /\ UNCHANGED propertyVars
    /\ UNCHANGED studyVars

\* checkVerification.ts:27-45: the query and the report; process.exit(0)
\* follows a returned query, process.exit(1) a failed one.  A wallet text
\* that is no address fails in the encoder, before anything is asked; a
\* query that is made returns true, returns false or fails.
QueryIsVerified ==
    /\ entry = "checkVerification"
    /\ status = "running"
    /\ step = "query"
    /\ \E outcome \in {"true", "false", "error"} :
          /\ ~IsAddress(inputs.wallet) => outcome = "error"
          /\ queries' = IF IsAddress(inputs.wallet)
                        THEN Append(queries,
                                 [name |-> "isVerified",
                                  to |-> IdentityRegistryAddress(entry, inputs),
                                  arg |-> inputs.wallet])
                        ELSE queries
          /\ IF outcome = "error"
             THEN /\ Throw("IsVerifiedFailed")
                  /\ UNCHANGED step
             ELSE /\ status' = "done"
                  /\ step' = "finished"
                  /\ console' = Append(console,
                                   IF outcome = "true"
                                   THEN Line("log", "Identity is verified", "")
                                   ELSE Line("error", "Identity is NOT verified", ""))
                  /\ UNCHANGED <<entry, pool, env, signers, pc, error, txs, confirmed,
                                 reverted, exitCode, printed>>
    /\ UNCHANGED <<getTokenResult, existingDeployment, receipt, suiteAddresses>>
    /\ UNCHANGED <<inputs, result>>

NextDownstream ==
    \/ ConfigureScript
    \/ SendScript
    \/ SendScriptFails
    \/ ScriptConfirmed
    \/ ScriptConfirmFails
    \/ QueryIsVerified
    \/ Confirm

\* the downstream scripts on a ledger where a mined transaction may revert
NextDownstreamLedger ==
    \/ NextDownstream
    \/ Revert

SpecDownstream == InitDownstream /\ [][NextDownstreamLedger]_vars

\* the scripts that deploy an identity proxy: the suite deployments with
\* default inputs and every indexed signer in the pool, and the downstream
\* scripts
InitIdentity ==
    \/ InitDownstream
    \/ InitLedger

NextIdentity ==
    \/ Next
    \/ NextDownstream

SpecIdentity == InitIdentity /\ [][NextIdentity]_vars

----------------------------------------------------------------------------
(* The claim signature (deployFullSuite, claimForAlice and claimForBob).    *)
(* Hashing and signing are symbolic: a hash is the term it was computed     *)
(* from, a signature names the key and the hash it was made over; two       *)
(* different terms never hash alike and a signature recovers to its key's   *)
(* address over the hash it signed and to an unrelated address over any     *)
(* other.                                                                   *)

\* largest number of verification queries made on one signature
MaxQueries == 2

\* The verifier (section 4.6 of the specification): it recomputes the digest
\* of (identity, topic, data) in the fixed order, re-hashes it under the
\* message prefix and recovers the signer of the signature over that hash.
VerifierHash(identity, topic, data) ==
    Keccak256(<<MessagePrefix,
                Keccak256(AbiEncode(<<"address", "uint256", "bytes">>,
                                    <<identity, topic, data>>))>>)

\* the address a signature recovers to over hash h
Recover(h, signature) ==
    IF signature.signed = h THEN AddrOfKey(signature.signer) ELSE Undefined

\* verify(issuerPublicKey, digest(identity, topic, data), signature)
Verify(issuer, identity, topic, data, signature) ==
    Recover(VerifierHash(identity, topic, data), signature) = issuer

\* the identities, topics, data and signing keys the study draws from
ClaimIdentities == {41, 42}
ClaimTopicValues == {7, 8}
ClaimDataValues == {0, 1, 2}
SigningKeys == {ValidKey, ValidKey + 1}

InitClaim ==
    /\ AtRest("claim")
    /\ inputs \in [identity : ClaimIdentities, topic : ClaimTopicValues,
                    data : ClaimDataValues, key : SigningKeys]

\* claim.signature = await claimIssuerSigningKey.signMessage(..)
SignClaim ==
    /\ result = NoResult
    /\ result' = Returned(ClaimSignature(inputs.key, inputs.identity, inputs.topic,
                                         inputs.data))
    /\ UNCHANGED <<inputs, queries>>
    /\ UNCHANGED runVars
    /\ UNCHANGED propertyVars

\* the verifier is asked whether the signature is the issuer's over a triple
VerifyClaim ==
    /\ result.returned
    /\ Len(queries) < MaxQueries
    /\ \E i \in ClaimIdentities, t \in ClaimTopicValues, d \in ClaimDataValues :
          queries' = Append(queries,
              [identity |-> i, topic |-> t, data |-> d,
               valid |-> Verify(AddrOfKey(inputs.key), i, t, d, result.value)])
    /\ UNCHANGED <<inputs, result>>
    /\ UNCHANGED runVars
    /\ UNCHANGED propertyVars

NextClaim ==
    \/ SignClaim
    \/ VerifyClaim

SpecClaim == InitClaim /\ [][NextClaim]_vars

----------------------------------------------------------------------------
(* The identity registry as the mined transactions of deployFullSuite leave *)
(* it, and its verification query.                                          *)

\* the investors deployFullSuite deploys an identity for
Investors == {"aliceWallet", "bobWallet", "charlieWallet"}

\* the wallets a transaction registers with the identity registry
\* (batchRegisterIdentity([alice, bob], [aliceIdentity, bobIdentity], ..))
Registers(name) ==
    IF name = "batchRegisterIdentity" THEN {"aliceWallet", "bobWallet"} ELSE {}

\* variant of ClaimTarget: the claim for bob is added to alice's identity
ClaimTarget_BobOnAlice(name) ==
    IF name \in {"aliceIdentity.addClaim", "bobIdentity.addClaim"} THEN "aliceWallet"
    ELSE ""

\* the investor whose identity contract an addClaim transaction is sent to
ClaimTarget(name) ==
    IF name = "aliceIdentity.addClaim" THEN "aliceWallet"
    ELSE IF name = "bobIdentity.addClaim" THEN "bobWallet"
    ELSE ""

\* the topics the claim-topics registry requires
RequiredTopics == IF \E i \in confirmed : txs[i].name = "addClaimTopic" THEN {ClaimTopic} ELSE {}

\* the topics the claim issuer is trusted for
TrustedTopics == IF \E i \in confirmed : txs[i].name = "addTrustedIssuer" THEN {ClaimTopic} ELSE {}

\* the wallet is stored in the identity registry
IsRegistered(w) == \E i \in confirmed : w \in Registers(txs[i].name)

\* the topics of the issuer's claims held by the wallet's identity
ClaimTopicsOf(w) == {ClaimTopic : i \in {j \in confirmed : ClaimTarget(txs[j].name) = w}}

\* identityRegistry.isVerified(wallet): the wallet is registered and its
\* identity holds, for every required topic, a claim of an issuer trusted for it
IsVerified(w) ==
    /\ IsRegistered(w)
    /\ \A t \in RequiredTopics : t \in TrustedTopics /\ t \in ClaimTopicsOf(w)

----------------------------------------------------------------------------
(* Vocabulary of the properties *)

Submitted(name) == \E i \in 1..Len(txs) : txs[i].name = name

Mined(name) == \E i \in confirmed : txs[i].name = name

TxIndex(name) == CHOOSE i \in 1..Len(txs) : txs[i].name = name

Pending == (1..Len(txs)) \ confirmed

\* the wiring calls of section 4.4, steps 1 to 4
RegistryWiring ==
    {"bindIdentityRegistry", "token.addAgent(tokenAgent)",
     "identityRegistry.addAgent(tokenAgent)", "identityRegistry.addAgent(token)",
     "addClaimTopic", "addTrustedIssuer"}

\* the groups (1) .. (6) of section 4.4
ClaimedGroups ==
    << {"bindIdentityRegistry"},
       {"token.addAgent(tokenAgent)", "identityRegistry.addAgent(tokenAgent)",
        "identityRegistry.addAgent(token)"},
       {"addClaimTopic"},
       {"addTrustedIssuer"},
       {"token.addAgent(agentManager)", "identityRegistry.addAgent(agentManager)"},
       {"unpause"} >>

\* the order deployFullSuite sends them in
FullSuiteGroups ==
    << {"bindIdentityRegistry"},
       {"token.addAgent(tokenAgent)"},
       {"addClaimTopic"},
       {"addTrustedIssuer"},
       {"identityRegistry.addAgent(tokenAgent)"},
       {"identityRegistry.addAgent(token)"},
       {"token.addAgent(agentManager)", "identityRegistry.addAgent(agentManager)"},
       {"unpause"} >>

\* every submitted call of a later group comes after all calls of the earlier groups
InGroupOrder(groups) ==
    \A g \in 1..Len(groups) : \A h \in (g + 1)..Len(groups) :
        \A b \in groups[h] : Submitted(b) =>
            \A a \in groups[g] : Submitted(a) /\ TxIndex(a) < TxIndex(b)

\* the statement that resolves role r in the first infrastructure script
ResolvePc(r) ==
    CHOOSE i \in 1..Len(ProgramInfra1) :
        ProgramInfra1[i].op = "resolve" /\ ProgramInfra1[i].name = r

\* resolveRoleSigner has returned for role r
Resolved(r) == entry = "infra1" /\ pc > ResolvePc(r)

\* number of fallback warnings written for role r
WarnCount(r) ==
    Cardinality({i \in 1..Len(console) :
        console[i].stream = "warn" /\ console[i].msg = "NoDedicatedSigner"
        /\ console[i].role = r})

----------------------------------------------------------------------------
(* C1 *)

\* C1 (as claimed): the unpause transaction is never mined before the storage
\* binding, the agent grants on token and identity registry, the claim-topic
\* registration and the trusted-issuer registration have all been mined.
C1_UnpauseMinedAfterWiring ==
    Mined("unpause") => \A w \in RegistryWiring : Mined(w)

(* C2 *)

\* C2 (as claimed): in every entry point the wiring calls are submitted in the
\* group order (1) .. (6); no call of a later group is submitted before every
\* call of an earlier group.
C2_ClaimedGroupOrder == InGroupOrder(ClaimedGroups)

\* C2 (amended): both deployTREXSuiteInfrastructure scripts submit the wiring
\* calls in the group order (1) .. (5) and never unpause; deployFullSuite
\* submits bindIdentityRegistry, token.addAgent(tokenAgent), addClaimTopic,
\* addTrustedIssuer, identityRegistry.addAgent(tokenAgent),
\* identityRegistry.addAgent(token), the agent-manager grants, unpause, in
\* this order.
C2_SubmissionOrder ==
    IF entry = "full"
    THEN InGroupOrder(FullSuiteGroups)
    ELSE InGroupOrder(ClaimedGroups) /\ ~Submitted("unpause")

C2_Witness ==
    /\ entry = "full"
    /\ status = "done"
    /\ Submitted("unpause")
    /\ TxIndex("addTrustedIssuer") < TxIndex("identityRegistry.addAgent(tokenAgent)")

(* C3 *)

\* C3 (as claimed): at every moment at most one transaction of the run is
\* pending (sent and not yet mined).
C3_AtMostOnePending == Cardinality(Pending) <= 1

(* C4 *)

\* C4: whenever getToken(salt) returned a non-zero address, the run has sent
\* no transaction and has reported that address.
C4_NoDeploymentWhenExisting ==
    (getTokenResult = "returned" /\ existingDeployment # AddressZero) =>
        /\ txs = << >>
        /\ \E i \in 1..Len(console) :
              console[i].msg = "ExistingSuiteDetected" /\ console[i].addr = existingDeployment

C4_Witness ==
    /\ getTokenResult = "returned"
    /\ existingDeployment = ExistingToken
    /\ txs = << >>
    /\ status = "done"

(* C5 *)

\* C5: when getToken(salt) fails, existingDeployment stays the zero address, a
\* warning is written, the failure is not the error of the run, and the run
\* goes on to the deployTREXSuite submission.
C5_QueryFailureProceeds ==
    getTokenResult = "reverted" =>
        /\ existingDeployment = AddressZero
        /\ \E i \in 1..Len(console) :
              console[i].stream = "warn" /\ console[i].msg = "GetTokenReverted"
        /\ error # "GetTokenReverted"
        /\ step \in {"deployTREXSuite", "wait", "finished"}
        /\ (step \in {"wait", "finished"} => Submitted("deployTREXSuite"))

C5_Witness ==
    /\ getTokenResult = "reverted"
    /\ Mined("deployTREXSuite")
    /\ status = "done"

(* C6 *)

\* C6: a run that found an existing suite for the salt ends as a plain return:
\* no error is raised, nothing is written to the error stream, the exit code
\* stays 0.
C6_ConflictIsInformational ==
    IsExistingDeployment(existingDeployment) =>
        /\ status = "done"
        /\ step = "finished"
        /\ error = ""
        /\ exitCode = 0
        /\ \A i \in 1..Len(console) : console[i].stream # "error"

C6_Witness ==
    /\ existingDeployment = ExistingToken
    /\ step = "finished"
    /\ exitCode = 0
    /\ console[Len(console)].msg = "ExistingSuiteDetected"

(* C7 *)

\* C7: once resolveRoleSigner has returned for role R and the environment
\* holds a private key for R, the signer of R has the address derived from
\* that key, whatever the pool holds.
C7_EnvironmentKeyWins ==
    \A r \in RoleKeys :
        (Resolved(r) /\ env[r] = ValidKey) => signers[r] = AddrOfKey(env[r])

C7_Witness ==
    /\ entry = "infra1"
    /\ pool = IndexedSigners
    /\ env["tokenAgent"] = ValidKey
    /\ Resolved("tokenAgent")
    /\ signers["tokenAgent"] = AddrOfKey(ValidKey)
    /\ signers["tokenAgent"] # PoolAddr(PoolIndex("tokenAgent"))

(* C8 *)

\* C8: for a resolved role R without environment key, the pooled signer at R's
\* index is used when there is one, else the deployer; the fallback warning
\* is written exactly once for every role that fell back and for no other.
C8_PoolThenDeployerWithOneWarning ==
    \A r \in RoleKeys :
        /\ (Resolved(r) /\ ~Truthy(env[r])) =>
              signers[r] = (IF PoolIndex(r) < pool THEN PoolAddr(PoolIndex(r))
                            ELSE PoolAddr(0))
        /\ WarnCount(r) = (IF Resolved(r) /\ ~Truthy(env[r]) /\ PoolIndex(r) >= pool
                           THEN 1 ELSE 0)

C8_Witness ==
    /\ entry = "infra1"
    /\ status = "done"
    /\ pool = 3
    /\ \A r \in RoleKeys : env[r] = EnvUnset
    /\ signers["tokenAgent"] = PoolAddr(2)
    /\ signers["tokenAdmin"] = PoolAddr(0)
    /\ WarnCount("tokenAgent") = 0
    /\ WarnCount("tokenAdmin") = 1
    /\ WarnCount("claimIssuer") = 1

(* C9 *)

\* C9 (as claimed): in every entry point a run whose pool holds the deployer
\* but no signer at some role index never fails because of that.
C9_NoFailureForMissingRoleSigner ==
    (pool >= 1 /\ pool < IndexedSigners /\ status = "failed") => error # "TypeError"

(* C10 *)

IsSuiteEvent(log) == log.decodes /\ log.name = "TREXSuiteDeployed"

\* the value the event carries for argument k: the named entry, the
\* positional one when there is no named entry
FieldValue(args, k) ==
    IF EventKeys[k + 1] \in DOMAIN args.named /\ args.named[EventKeys[k + 1]].t # "undefined"
    THEN args.named[EventKeys[k + 1]]
    ELSE IF k + 1 \in DOMAIN args.pos THEN args.pos[k + 1] ELSE UndefinedValue

IsNonZeroAddressValue(v) ==
    v.t \in {"string", "object"} /\ v.form \in {"checksum", "lower"} /\ v.a # AddressZero

\* the receipt holds exactly one TREXSuiteDeployed log, with six non-zero addresses
OneGoodEvent(logs) ==
    /\ Cardinality({i \in 1..Len(logs) : IsSuiteEvent(logs[i])}) = 1
    /\ \A i \in 1..Len(logs) : IsSuiteEvent(logs[i]) =>
          \A k \in 0..5 : IsNonZeroAddressValue(FieldValue(logs[i].args, k))

TheEvent(logs) == logs[CHOOSE i \in 1..Len(logs) : IsSuiteEvent(logs[i])]

Checksummed(v) == [t |-> "string", a |-> v.a, form |-> "checksum"]

\* C10: when the receipt holds exactly one TREXSuiteDeployed log with six
\* non-zero addresses, at any position among logs that do not decode or are
\* other events, the run succeeds and suiteAddresses holds exactly the six
\* arguments of that log, each read by name, by index when there is no named
\* entry, and each in checksummed form.
C10_ExtractsTheMatchingEvent ==
    OneGoodEvent(receipt) =>
        /\ status = "done"
        /\ LET args == TheEvent(receipt).args
           IN suiteAddresses =
                [token |-> Checksummed(FieldValue(args, 0)),
                 identityRegistry |-> Checksummed(FieldValue(args, 1)),
                 identityRegistryStorage |-> Checksummed(FieldValue(args, 2)),
                 trustedIssuersRegistry |-> Checksummed(FieldValue(args, 3)),
                 claimTopicsRegistry |-> Checksummed(FieldValue(args, 4)),
                 modularCompliance |-> Checksummed(FieldValue(args, 5))]

C10_Witness ==
    /\ Len(receipt) = 3
    /\ ~receipt[1].decodes
    /\ IsSuiteEvent(receipt[2])
    /\ "_tir" \notin DOMAIN receipt[2].args.named
    /\ receipt[3].name = "Deployed"
    /\ OneGoodEvent(receipt)
    /\ status = "done"
    /\ suiteAddresses.trustedIssuersRegistry = AddressText(Emitted(2, 3))
    /\ suiteAddresses.token = AddressText(Emitted(2, 0))

(* C11 *)

\* tx.wait() has returned the receipt of the deployTREXSuite transaction
ReceiptConfirmed ==
    \E i \in 1..Len(console) : console[i].msg = "TransactionConfirmed"

\* C11: once the receipt is confirmed and none of its logs decodes as
\* TREXSuiteDeployed, the run has failed with the not-found error and exit
\* code 1, and no suite address table, full or partial, was assigned or printed.
C11_NoEventIsNotFound ==
    (ReceiptConfirmed /\ \A i \in 1..Len(receipt) : ~IsSuiteEvent(receipt[i])) =>
        /\ status = "failed"
        /\ error = "EventNotFound"
        /\ exitCode = 1
        /\ ~printed
        /\ suiteAddresses = NoSuite
        /\ \A i \in 1..Len(console) : console[i].msg # "SuiteDeployed"

C11_Witness ==
    /\ ReceiptConfirmed
    /\ Len(receipt) = 2
    /\ ~receipt[1].decodes
    /\ receipt[2].decodes /\ receipt[2].name = "Deployed"
    /\ error = "EventNotFound"
    /\ exitCode = 1

(* C12 *)

\* position of the first log, in receipt order, that decodes as TREXSuiteDeployed
FirstEvent(logs) ==
    CHOOSE i \in 1..Len(logs) :
        IsSuiteEvent(logs[i]) /\ \A j \in 1..(i - 1) : ~IsSuiteEvent(logs[j])

\* a required field that is missing or the zero address
MissingOrZero(v) == v.t = "undefined" \/ v = AddressZeroText

\* C12 (as claimed): when a field of the first TREXSuiteDeployed log of the
\* confirmed receipt is missing or zero, the extraction fails and no later log
\* produces the result.
C12_FirstMatchDecides ==
    (/\ ReceiptConfirmed
     /\ \E i \in 1..Len(receipt) : IsSuiteEvent(receipt[i])
     /\ \E k \in 0..5 : MissingOrZero(FieldValue(receipt[FirstEvent(receipt)].args, k)))
        => (status = "failed" /\ suiteAddresses = NoSuite)

(* C13 *)

\* C13: the signature made over the digest of (identity, topic, data) with the
\* issuer's key verifies for the issuer's address over exactly that triple:
\* every query with the same triple succeeds, every query that differs in
\* identity, topic or data fails.
C13_SignatureRoundTrip ==
    \A i \in 1..Len(queries) :
        queries[i].valid <=>
            /\ queries[i].identity = inputs.identity
            /\ queries[i].topic = inputs.topic
            /\ queries[i].data = inputs.data

C13_Witness ==
    /\ entry = "claim"
    /\ Len(queries) = 2
    /\ queries[1].valid
    /\ queries[1].data = inputs.data
    /\ ~queries[2].valid
    /\ queries[2].identity = inputs.identity
    /\ queries[2].topic = inputs.topic
    /\ queries[2].data # inputs.data

(* C14 *)

\* the statement of deployFullSuite that adds the issuer's claim to the
\* identity of investor w ("" for charlie: there is none)
ClaimStep(w) ==
    IF w = "aliceWallet" THEN "aliceIdentity.addClaim"
    ELSE IF w = "bobWallet" THEN "bobIdentity.addClaim"
    ELSE ""

ValidNonZeroAddress(v) == v.t = "string" /\ v.form \in AddressForms /\ v.a # AddressZero

\* C15 (as claimed): requireAddress returns the checksummed form of a valid
\* non-zero address and fails for every other string, the zero address
\* included.
C15_RequireAddressRejectsAllOthers ==
    /\ result.returned =>
          /\ ValidNonZeroAddress(inputs.value)
          /\ result.value = Checksummed(inputs.value)
    /\ status = "failed" => ~ValidNonZeroAddress(inputs.value)

(* C16 *)

\* the inputs of a property-token run the claim names: a factory or owner
\* address that is set and is no address, a salt that is set and empty after
\* trimming, token decimals that are set and no integer of 0..18
MalformedAddressInput(v) == v.t # "undefined" /\ v.form \notin AddressForms

BlankSalt(v) == v.t # "undefined" /\ \A i \in 1..Len(v.text) : v.text[i] = " "

DecimalsOutOfRange(v) ==
    v.t # "undefined" /\ v.text \notin {"0", "18"}

RejectedInputs ==
    \/ MalformedAddressInput(inputs.factory)
    \/ MalformedAddressInput(inputs.owner)
    \/ BlankSalt(inputs.salt)
    \/ DecimalsOutOfRange(inputs.decimals)

C17_DecimalsRejectedBeforeDeployment ==
    (entry \in {"full", "infra1", "infra2"} /\ DecimalsOutOfRange(inputs.decimals))
        => txs = << >>

(* C18 *)

\* the proxies that reference the versioned suite authority, and the identity
\* proxies, which reference the identity implementation authority
SuiteProxies ==
    {"ClaimTopicsRegistryProxy", "TrustedIssuersRegistryProxy",
     "IdentityRegistryStorageProxy", "IdentityRegistryProxy", "TokenProxy"}

IdentityProxies == {"tokenOID", "aliceIdentity", "bobIdentity", "charlieIdentity"}

\* C18 (as claimed): a proxy deployment is submitted, and so mined, only after
\* the addAndUseTREXVersion transaction of its authority (for an identity
\* proxy: the deployment of the identity ImplementationAuthority) was mined.
C18_ProxyAfterAuthorityRegistered ==
    /\ \A p \in SuiteProxies : Submitted(p) => Mined("addAndUseTREXVersion")
    /\ \A p \in IdentityProxies : Submitted(p) => Mined("ImplementationAuthority")

(* C19 *)

\* the implementation every field of the activated version must carry
ComponentImplementations ==
    [tokenImplementation |-> "Token",
     ctrImplementation |-> "ClaimTopicsRegistry",
     irImplementation |-> "IdentityRegistry",
     irsImplementation |-> "IdentityRegistryStorage",
     tirImplementation |-> "TrustedIssuersRegistry",
     mcImplementation |-> "ModularCompliance"]

Activations == {i \in 1..Len(txs) : txs[i].name = "addAndUseTREXVersion"}

\* C19: a run sends at most one addAndUseTREXVersion; it carries version
\* (4,0,0) and, for each of the six components, the address of that
\* component's implementation, whose deployment was sent earlier in the run
\* and is mined whenever the activation is.
C19_OneCompleteActivation ==
    /\ Cardinality(Activations) <= 1
    /\ \A i \in Activations :
          /\ txs[i].args.version = [major |-> 4, minor |-> 0, patch |-> 0]
          /\ txs[i].args.contracts = ComponentImplementations
          /\ \A f \in DOMAIN ComponentImplementations :
                \E j \in 1..(i - 1) :
                    /\ txs[j].name = ComponentImplementations[f]
                    /\ i \in confirmed => j \in confirmed

C19_Witness ==
    /\ entry = "infra1"
    /\ Mined("addAndUseTREXVersion")
    /\ Mined("Token")
    /\ status = "done"

(* C20 *)

\* C20 (as claimed): once a deployment, a wiring call or a confirmation of the
\* run has failed (an exception was raised, or a transaction of the run
\* reverted), nothing more is submitted and no address table is printed.
C20_FailureEndsRun ==
    [][(error # "" \/ reverted # {}) => (txs' = txs /\ printed' = printed)]_vars

(* C21 *)

\* the first wiring call of the running script
FirstWiringPc ==
    CHOOSE i \in 1..Len(Program(entry)) : Program(entry)[i].name = "bindIdentityRegistry"

\* a wiring statement failed after at least one wiring call had completed
WiringFailedMidSequence ==
    /\ status = "failed"
    /\ pc > FirstWiringPc
    /\ Current.op \in {"deploy", "call"}

\* C21 (as claimed): when a wiring step fails after earlier wiring steps
\* completed, an error line of the run names the last wiring step that
\* completed.
C21_ErrorNamesLastSuccessfulStep ==
    WiringFailedMidSequence =>
        \E i \in 1..Len(console) :
            /\ console[i].stream = "error"
            /\ Program(entry)[pc - 1].name \in {console[i].msg, console[i].role}

(* C22 *)

\* C22 (as claimed): a run that ended on a fatal error has a non-zero exit
\* code and wrote the error to the error stream last; a run that ended
\* without one has exit code 0, and it has exit code 0 only when it succeeded
\* in full, that is when no transaction it sent reverted.
C22_ExitCodeTellsOutcome ==
    /\ status = "failed" =>
          /\ exitCode # 0
          /\ console # << >>
          /\ console[Len(console)] = Line("error", error, "")
    /\ status = "done" => exitCode = 0
    /\ (status = "done" /\ exitCode = 0) => reverted = {}

(* C24 *)

\* C24 (as claimed): with a signer in the pool and a provider resolved, no
\* call of resolveRoleSigner raises, whatever the environment keys are.
C24_ResolverNeverRaises ==
    (entry = "infra1" /\ pool > 0 /\ Current.op = "resolve") => status # "failed"

(* C27 *)

\* the transactions of the run that send `name`
Calls(name) == {i \in 1..Len(txs) : txs[i].name = name}

\* C27: every addTrustedIssuer comes after an addClaimTopic of the same run
\* for each topic it names, and that registration is mined whenever the
\* trusted-issuer registration is; no topic is registered twice, and a
\* completed run has registered its topic.
C27_TrustAfterTopicRegistration ==
    /\ \A i \in Calls("addTrustedIssuer") :
          \A t \in txs[i].args.topics :
              \E j \in Calls("addClaimTopic") :
                  /\ j < i
                  /\ txs[j].args.topic = t
                  /\ i \in confirmed => j \in confirmed
    /\ \A j, k \in Calls("addClaimTopic") : txs[j].args.topic = txs[k].args.topic => j = k
    /\ status = "done" => Cardinality(Calls("addClaimTopic")) = 1

C27_Witness ==
    /\ entry = "full"
    /\ status = "done"
    /\ Calls("addTrustedIssuer") # {}
    /\ Calls("addTrustedIssuer") \subseteq confirmed

(* C28 *)

\* the addClaim transactions of the run
ClaimCalls == Calls("aliceIdentity.addClaim") \cup Calls("bobIdentity.addClaim")

\* the transactions mined without reverting
Effective == confirmed \ reverted

\* C28 (as claimed): from the moment an addClaim is submitted, its signature
\* verifies over (the identity contract called, topic, data); the topic is
\* registered on the claim-topics registry; the issuer contract exists and is
\* registered as trusted for the topic; and the key hash of the signing key
\* is on the issuer contract with purpose 3.
C28_ClaimVerifiableAtSubmission ==
    \A i \in ClaimCalls :
        LET claim == txs[i].args
            signer == Recover(VerifierHash(claim.to, claim.topic, claim.data),
                              claim.signature)
        IN /\ signer # Undefined
           /\ \E j \in Calls("addClaimTopic") \cap Effective :
                  txs[j].args.topic = claim.topic
           /\ \E j \in Calls(claim.issuer) \cap Effective : j < i
           /\ \E j \in Calls("addTrustedIssuer") \cap Effective :
                  txs[j].args.issuer = claim.issuer /\ claim.topic \in txs[j].args.topics
           /\ \E j \in Calls("claimIssuerContract.addKey") \cap Effective :
                  txs[j].args.key = KeyHash(signer) /\ txs[j].args.purpose = 3

\* the same with "submitted earlier" in place of "mined"
C28_ClaimPreparedInSubmissionOrder ==
    \A i \in ClaimCalls :
        LET claim == txs[i].args
            signer == Recover(VerifierHash(claim.to, claim.topic, claim.data),
                              claim.signature)
        IN /\ signer # Undefined
           /\ \E j \in Calls("addClaimTopic") : j < i /\ txs[j].args.topic = claim.topic
           /\ \E j \in Calls(claim.issuer) : j < i
           /\ \E j \in Calls("addTrustedIssuer") :
                  j < i /\ txs[j].args.issuer = claim.issuer
                        /\ claim.topic \in txs[j].args.topics
           /\ \E j \in Calls("claimIssuerContract.addKey") :
                  j < i /\ txs[j].args.key = KeyHash(signer) /\ txs[j].args.purpose = 3

(* C30 *)

\* C30: the ImplementationAuthority deployment is sent only after the Identity
\* implementation of the same run is mined, and points at it; the identity
\* Factory deployment is sent only after that authority is mined, and points
\* at it; a run deploys each of the three once.
C30_IdentityAuthorityBuildOrder ==
    /\ \A i \in Calls("ImplementationAuthority") :
          /\ txs[i].args.implementation = "Identity"
          /\ \E j \in Calls("Identity") \cap Effective : j < i
    /\ \A i \in Calls("IdentityFactory") :
          /\ txs[i].args.implementationAuthority = "ImplementationAuthority"
          /\ \E j \in Calls("ImplementationAuthority") \cap Effective : j < i
    /\ \A n \in {"Identity", "ImplementationAuthority", "IdentityFactory"} :
          Cardinality(Calls(n)) <= 1

C30_Witness ==
    /\ entry = "infra2"
    /\ Calls("IdentityFactory") # {}
    /\ Calls("IdentityFactory") \subseteq confirmed
    /\ status = "done"

(* C25 *)

\* the salts passed to trexFactory.getToken and to trexFactory.deployTREXSuite
GetTokenSalts == {queries[i].arg : i \in {k \in 1..Len(queries) : queries[k].name = "getToken"}}

DeploySalts == {txs[i].args.salt : i \in Calls("deployTREXSuite")}

\* a string without a blank at either end, and not empty
NoOuterSpace(chars) ==
    /\ chars # << >>
    /\ Head(chars) # " "
    /\ chars[Len(chars)] # " "

Blank(chars) == \A k \in 1..Len(chars) : chars[k] = " "

\* chars is what is left of raw once its leading and trailing blanks are cut
IsTrimOf(chars, raw) ==
    /\ NoOuterSpace(chars)
    /\ \E i \in 1..Len(raw), j \in 1..Len(raw) :
          /\ chars = SubSeq(raw, i, j)
          /\ \A k \in (1..Len(raw)) \ (i..j) : raw[k] = " "

\* C25: every salt that reaches the factory is non-empty without a blank at
\* either end; deployTREXSuite gets the salt the getToken query was made
\* with; and when PROPERTY_TOKEN_SALT is unset the salt is the token name with
\* its outer blanks cut, the default name when PROPERTY_TOKEN_NAME is unset
\* or blank.
C25_SaltTrimmedAndShared ==
    /\ \A salt \in GetTokenSalts \cup DeploySalts : NoOuterSpace(salt)
    /\ Cardinality(GetTokenSalts) <= 1
    /\ DeploySalts \subseteq GetTokenSalts
    /\ inputs.salt = NoText =>
          \A salt \in GetTokenSalts \cup DeploySalts :
              IF inputs.name = NoText \/ Blank(inputs.name.text)
              THEN salt = << "L", "V" >>
              ELSE IsTrimOf(salt, inputs.name.text)

C25_Witness ==
    /\ inputs.salt = NoText
    /\ inputs.name = Text(<< " ", "b", " " >>)
    /\ DeploySalts = {<< "b" >>}
    /\ GetTokenSalts = {<< "b" >>}
    /\ status = "done"

(* C26 *)

\* the text is a spelling of the integer n: its decimal numeral, also with
\* blanks around it, with an exponent, in hexadecimal or with a zero fraction
Denotes(text, n) ==
    \/ text = ToString(n)
    \/ text = " 7 " /\ n = 7
    \/ text = "1e1" /\ n = 10
    \/ text = "0x12" /\ n = 18
    \/ text = "18.0" /\ n = 18

\* parseDecimals returned or threw
ParseDecimalsApplied == entry = "parseDecimals" /\ (status = "failed" \/ result.returned)

\* C26 (as claimed): parseDecimals returns 0 for an undefined input, n for an
\* input that denotes an integer n of 0..18, and raises for every other
\* input; it returns no value outside 0..18.
C26_ParseDecimalsContract ==
    ParseDecimalsApplied =>
        /\ inputs.raw = NoText => (result.returned /\ result.value = 0)
        /\ \A n \in 0..18 :
              (inputs.raw # NoText /\ Denotes(inputs.raw.text, n))
                  => (result.returned /\ result.value = n)
        /\ (inputs.raw # NoText /\ ~\E n \in 0..18 : Denotes(inputs.raw.text, n))
              => (status = "failed" /\ error = "InvalidDecimals")
        /\ result.returned => result.value \in 0..18

\* the part of it that holds: what is returned lies in 0..18
C26_ReturnsOnlyZeroToEighteen ==
    (ParseDecimalsApplied /\ result.returned) => result.value \in 0..18

(* C23 *)

\* the registry contracts a downstream script has called: the targets of its
\* batchRegisterIdentity transactions and of its isVerified queries
RegistriesCalled ==
    {txs[i].args.to : i \in Calls("batchRegisterIdentity(user)")}
    \cup {queries[i].to : i \in {k \in 1..Len(queries) : queries[k].name = "isVerified"}}

\* C23 (as claimed): when IDENTITY_REGISTRY_ADDRESS is set, registerIdentity
\* and checkVerification call the registry at that address and no other.
C23_RegistryFromEnvironment ==
    (entry \in {"registerIdentity", "checkVerification"} /\ inputs.registry # UndefinedValue)
        => \A r \in RegistriesCalled : r = inputs.registry

\* the part of it that holds: registerIdentity follows the environment
C23_RegisterIdentityFollowsEnvironment ==
    (entry = "registerIdentity" /\ inputs.registry # UndefinedValue)
        => \A r \in RegistriesCalled : r = inputs.registry

(* C29 *)

\* the identity proxies whose address a statement passes as a constructor
\* argument or calls
IdentityReads(name) ==
    CASE name = "TokenProxy" -> {"tokenOID"}
      [] name = "aliceIdentity.addKey" -> {"aliceIdentity"}
      [] name = "batchRegisterIdentity" -> {"aliceIdentity", "bobIdentity"}
      [] name = "aliceIdentity.addClaim" -> {"aliceIdentity"}
      [] name = "bobIdentity.addClaim" -> {"bobIdentity"}
      [] OTHER -> {}

\* the console shows the address of the identity the deployIdentity script deployed
IdentityAddressPrinted ==
    \E k \in 1..Len(console) : console[k].msg = "New Identity Contract Address"

\* C29: a transaction that takes the address of an identity proxy, as
\* constructor argument or as call target, is sent only after that proxy's
\* deployment was mined without reverting; the address table of a suite and
\* the address line of the deployIdentity script are printed only when every
\* identity proxy the run deployed was.
C29_IdentityAddressOnlyAfterConfirmation ==
    /\ \A i \in 1..Len(txs) : \A p \in IdentityReads(txs[i].name) :
          \E j \in Calls(p) \cap Effective : j < i
    /\ printed => \A p \in IdentityProxies \cup {"identity"} : Calls(p) \subseteq Effective
    /\ IdentityAddressPrinted =>
          (Calls("identity") # {} /\ Calls("identity") \subseteq Effective)

C29_Witness ==
    /\ entry = "full"
    /\ status = "done"
    /\ printed
    /\ Calls("bobIdentity.addClaim") # {}
    /\ Calls("tokenOID") \subseteq Effective

\* the deployIdentity script has printed the address of a confirmed identity
C29_WitnessStandalone ==
    /\ entry = "deployIdentity"
    /\ IdentityAddressPrinted
    /\ status = "done"

(* C31 *)

\* the key the script builds its agent wallet from, as the claim words it:
\* AGENT_PRIVATE_KEY when both variables are set
RequiredKey ==
    IF inputs.agentKey # EnvUnset THEN inputs.agentKey ELSE inputs.privateKey

\* a required input of the script is missing or malformed
RequiredInputInvalid ==
    \/ RequiredKey \in {EnvUnset, EnvEmpty, MalformedKey}
    \/ inputs.wallet.t = "undefined"
    \/ inputs.wallet.form \notin AddressForms
    \/ entry = "registerIdentity"
       /\ (inputs.identity.t = "undefined" \/ inputs.identity.form \notin AddressForms)

\* C31: a run of the deployIdentity script or of registerIdentity with a
\* missing agent key, a missing or malformed USER_WALLET or (registerIdentity)
\* a missing or malformed USER_IDENTITY_ADDRESS sends no transaction, never
\* ends successfully, and once it has ended it has failed with exit code 1;
\* every transaction a run sends is signed by the account of
\* AGENT_PRIVATE_KEY when that variable is set, of PRIVATE_KEY otherwise.
C31_NoTransactionWithoutValidInputs ==
    entry \in {"deployIdentity", "registerIdentity"} =>
        /\ RequiredInputInvalid =>
              /\ txs = << >>
              /\ status # "done"
              /\ status # "running" => (status = "failed" /\ exitCode = 1)
        /\ \A i \in 1..Len(txs) :
              /\ txs[i].name \in {"identity", "batchRegisterIdentity(user)"}
              /\ txs[i].from = AddrOfKey(RequiredKey)
              /\ (inputs.agentKey # EnvUnset /\ inputs.privateKey # EnvUnset)
                    => txs[i].from = AddrOfKey(inputs.agentKey)

\* registerIdentity has sent its transaction with both keys set
C31_Witness ==
    /\ entry = "registerIdentity"
    /\ inputs.agentKey = ValidKey
    /\ inputs.privateKey = ValidKey + 1
    /\ Len(txs) = 1
    /\ txs[1].name = "batchRegisterIdentity(user)"
    /\ txs[1].from = AddrOfKey(ValidKey)

\* the deployIdentity script has failed on a malformed USER_WALLET
C31_WitnessRejected ==
    /\ entry = "deployIdentity"
    /\ Truthy(RequiredKey)
    /\ inputs.wallet = Value("string", 0, "text")
    /\ status = "failed"
    /\ error = "InvalidUserWallet"
    /\ exitCode = 1
    /\ txs = << >>

(* C32 *)

\* the token is paused: the token proxy is initialised paused and stays so
\* until an unpause transaction is mined without reverting
TokenPaused == Calls("unpause") \cap Effective = {}

\* C32: a run of deployTREXSuiteInfrastructure, in either variant, never
\* sends token.unpause, and the token is paused in every state of the run,
\* the final one included.
C32_InfrastructureLeavesTokenPaused ==
    entry \in {"infra1", "infra2"} =>
        /\ Calls("unpause") = {}
        /\ TokenPaused

\* an infrastructure run has returned with the token deployed, every wiring
\* call mined and the token still paused
C32_Witness ==
    /\ entry \in {"infra1", "infra2"}
    /\ status = "done"
    /\ Calls("TokenProxy") # {}
    /\ Calls("identityRegistry.addAgent(agentManager)") # {}
    /\ confirmed = 1..Len(txs)
    /\ TokenPaused

\* deployFullSuite, by contrast, ends with the token unpaused
C32_WitnessFullSuiteUnpaused ==
    /\ entry = "full"
    /\ status = "done"
    /\ ~TokenPaused

(* C33 *)

\* the calls of deployFullSuite that need agent privilege, each with the
\* transaction that grants it
PrivilegedCalls ==
    { <<"batchRegisterIdentity", "identityRegistry.addAgent(tokenAgent)">>,
      <<"mint(alice)", "token.addAgent(tokenAgent)">>,
      <<"mint(bob)", "token.addAgent(tokenAgent)">>,
      <<"unpause", "token.addAgent(tokenAgent)">> }

\* every privileged call sent so far was sent after its grant
GrantSubmittedFirst(c) ==
    \A i \in Calls(c[1]) : \E j \in Calls(c[2]) : j < i

\* every privileged call mined so far was mined when its grant was
GrantMinedFirst(c) ==
    \A i \in Calls(c[1]) \cap confirmed : \E j \in Calls(c[2]) \cap confirmed : j < i

\* C33 (as claimed): in deployFullSuite batchRegisterIdentity is submitted
\* after identityRegistry.addAgent(tokenAgent), mint and unpause after
\* token.addAgent(tokenAgent), and no privileged call is mined while its
\* grant is not.
C33_PrivilegedCallAfterGrant ==
    entry = "full" =>
        \A c \in PrivilegedCalls : GrantSubmittedFirst(c) /\ GrantMinedFirst(c)

\* the part of it that holds: the submission order of all four calls, and the
\* mining order for mint and unpause, whose grant is mined before they are
\* submitted (the awaited identity deployments of the deployer follow it)
C33_SubmissionOrderAndTokenGrant ==
    entry = "full" =>
        /\ \A c \in PrivilegedCalls : GrantSubmittedFirst(c)
        /\ \A c \in PrivilegedCalls :
              c[2] = "token.addAgent(tokenAgent)" =>
                  \A i \in Calls(c[1]) : \E j \in Calls(c[2]) \cap confirmed : j < i

(* C34 *)

\* the mint transactions sent so far
MintCalls == Calls("mint(alice)") \cup Calls("mint(bob)")

\* the identities the transactions in `among` register wallet w with
RegisteredIdentities(among, w) ==
    {txs[j].args.identities[k] :
        <<j, k>> \in {<<j, k>> \in (among \cap Calls("batchRegisterIdentity")) \X (1..2) :
                          txs[j].args.wallets[k] = w}}

\* a transaction in `among` adds a claim of the trusted issuer to the identity
ClaimAdded(among, identity) ==
    \E j \in among \cap ClaimCalls :
        /\ txs[j].args.to = identity
        /\ txs[j].args.issuer = "ClaimIssuer"
        /\ txs[j].args.topic = ClaimTopic

\* C34 (as claimed): in deployFullSuite a wallet receives tokens only when it
\* is verifiable: whenever a mint transaction is mined, the registration of
\* its recipient with an identity and the trusted issuer's claim on that
\* identity are in effect; charlie, david and another are never recipients.
C34_MintOnlyToVerifiable ==
    entry = "full" =>
        \A i \in MintCalls :
            /\ txs[i].args.to \in {"aliceWallet", "bobWallet"}
            /\ i \in confirmed =>
                  \E id \in RegisteredIdentities(Effective, txs[i].args.to) :
                      ClaimAdded(Effective, id)

\* the part of it that holds: each mint is submitted after the registration
\* of its recipient and after the claim on the recipient's identity were
\* submitted, the registration is mined when the mint is (both come from the
\* tokenAgent), and only alice and bob are recipients
C34_MintAfterRegistrationAndClaimSubmitted ==
    entry = "full" =>
        \A i \in MintCalls :
            /\ txs[i].args.to \in {"aliceWallet", "bobWallet"}
            /\ \E id \in RegisteredIdentities(1..(i - 1), txs[i].args.to) :
                  ClaimAdded(1..(i - 1), id)
            /\ i \in confirmed => RegisteredIdentities(confirmed, txs[i].args.to) # {}

(* C35 *)

\* the tokenDetails of the deployTREXSuite transactions sent so far
TokenDetailsPassed == {txs[i].args.tokenDetails : i \in Calls("deployTREXSuite")}

\* the accounts a list of address texts names
Accounts(list) == {list[k].a : k \in 1..Len(list)}

\* the account the claim names as property owner
ClaimedOwner ==
    IF inputs.owner.t # "undefined" THEN inputs.owner.a
    ELSE IF pool >= 2 THEN PoolAddr(1)
    ELSE PoolAddr(0)

\* C35: in every deployTREXSuite transaction of the property-token deployment
\* irAgents and tokenAgents are the same list; it names the deployer and the
\* property owner and no account twice, so it has one element when the owner
\* is the deployer and two otherwise; every element is a checksummed address;
\* the owner is PROPERTY_OWNER_ADDRESS when set, else the second pooled
\* signer when there is one, else the deployer.
C35_AgentLists ==
    entry = "property" =>
        \A d \in TokenDetailsPassed :
            /\ d.irAgents = d.tokenAgents
            /\ PoolAddr(0) \in Accounts(d.irAgents)
            /\ d.owner.a \in Accounts(d.irAgents)
            /\ Cardinality(Accounts(d.irAgents)) = Len(d.irAgents)
            /\ Len(d.irAgents) = IF d.owner.a = PoolAddr(0) THEN 1 ELSE 2
            /\ \A k \in 1..Len(d.irAgents) : d.irAgents[k] = AddressText(d.irAgents[k].a)
            /\ d.owner = AddressText(ClaimedOwner)

\* the suite was requested with PROPERTY_OWNER_ADDRESS naming the deployer in
\* lower case, while a second signer is in the pool: one agent
C35_Witness ==
    /\ entry = "property"
    /\ pool = 2
    /\ inputs.owner = Value("string", PoolAddr(0), "lower")
    /\ \E d \in TokenDetailsPassed : d.irAgents = << AddressText(PoolAddr(0)) >>

\* the suite was requested with the second pooled signer as owner: two agents
C35_WitnessTwoAgents ==
    /\ entry = "property"
    /\ pool = 2
    /\ inputs.owner = UndefinedValue
    /\ \E d \in TokenDetailsPassed :
          d.tokenAgents = << AddressText(PoolAddr(0)), AddressText(PoolAddr(1)) >>

(* C36 *)

\* the getCode queries made so far
CodeQueries == {k \in 1..Len(queries) : queries[k].name = "getCode"}

\* the addresses a getCode query found bytecode at
WithBytecode ==
    {queries[k].arg : k \in {q \in CodeQueries : queries[q].code \notin {GetCodeRejected, "0x"}}}

\* the factory contracts the run has queried with getToken or sent
\* deployTREXSuite to
FactoriesCalled ==
    {queries[k].to : k \in {q \in 1..Len(queries) : queries[q].name = "getToken"}}
    \cup {txs[i].args.to : i \in Calls("deployTREXSuite")}

\* C36: in the property-token deployment, once getCode has returned "0x"
\* for the factory address the run has failed with exit code 1 and has made
\* no getToken query and sent no deployTREXSuite transaction; every getToken
\* query and every deployTREXSuite transaction goes to an address at which an
\* earlier getCode query found bytecode.
C36_NoBytecodeEndsRun ==
    entry = "property" =>
        /\ (\E k \in CodeQueries : queries[k].code = "0x") =>
              /\ status = "failed"
              /\ exitCode = 1
              /\ FactoriesCalled = {}
        /\ FactoriesCalled \subseteq WithBytecode

\* a run has ended on a factory address without bytecode
C36_Witness ==
    /\ entry = "property"
    /\ Len(queries) = 1
    /\ queries[1].name = "getCode"
    /\ queries[1].code = "0x"
    /\ status = "failed"
    /\ error = "NoContractBytecode"
    /\ txs = << >>

\* a run has queried the factory and sent the deployment after it found
\* bytecode at the address
C36_WitnessDeployed ==
    /\ entry = "property"
    /\ Calls("deployTREXSuite") # {}
    /\ FactoriesCalled = {AddressText(9)}
    /\ FactoriesCalled \subseteq WithBytecode

============================================================================
